---------------------------- MODULE Spec2Model ----------------------------
(***************************************************************************)
(* A model of the decision core of backend/trading_agent.py (TradingAgent). *)
(*                                                                         *)
(* Representation.                                                         *)
(*  - A Python dict is a TLA+ function whose DOMAIN is the set of keys     *)
(*    present; d.get(k, v) is Get(d, k, v) and `k in d` is Has(d, k).      *)
(*  - A Python float is a fixed-point integer in units of 1/Scale          *)
(*    (Dec(65, 100) is 0.65); products with decimal literals are computed  *)
(*    exactly on the fixed-point values.                                   *)
(*  - An indicator value (numeric | string | bool) is a tagged record, so  *)
(*    that a comparison of a string with a number can raise TypeError as   *)
(*    it does in Python 3.                                                 *)
(*  - A call that raises yields a result with raised = TRUE.               *)
(*  - Text is a TLA+ string; substring tests, split and float parsing are  *)
(*    computed on its characters.                                          *)
(***************************************************************************)
EXTENDS Integers, Sequences, FiniteSets, TLC

VARIABLES
    trade_history,        \* self.trade_history
    now,                  \* the clock behind datetime.now(): one tick per logged trade
    appended,             \* number of appends made to trade_history since construction
    parsed_content_list,  \* the elements analyze_market returned for the current cycle
    forex_data,           \* the snapshot of the current cycle
    confidence_score,     \* result of the last _calculate_confidence_score call
    risk_assessment,      \* result of the last _assess_risk call, or the profile passed in
    decision,             \* result of the last make_trade_decision call
    performance,          \* result of the last evaluate_performance call
    advice,               \* result of the last decide_trade call, with its inputs
    writers,              \* the log_performance calls in progress: position and locals
    pc                    \* the operation that ran last

vars == <<trade_history, now, appended, parsed_content_list, forex_data,
          confidence_score, risk_assessment, decision, performance, advice,
          writers, pc>>

---------------------------------------------------------------------------
(* Fixed-point numbers and dicts                                           *)

Scale == 10 ^ 4
Dec(n, d) == (n * Scale) \div d

Has(d, k) == k \in DOMAIN d
Get(d, k, default) == IF k \in DOMAIN d THEN d[k] ELSE default
Restrict(f, S) == [k \in S |-> f[k]]
EmptyDict == << >>

Min(a, b) == IF a < b THEN a ELSE b
Max(a, b) == IF a > b THEN a ELSE b
Abs(a) == IF a < 0 THEN -a ELSE a

(* F applied to the value of x: x is evaluated once, whatever the number of *)
(* times F reads its argument.                                             *)
Strict(x, F(_)) == CHOOSE r \in {F(v) : v \in {x}} : TRUE

RECURSIVE SumSeq(_)
SumSeq(s) == IF s = << >> THEN 0 ELSE Head(s) + SumSeq(Tail(s))

RECURSIVE MaxSeq(_)
MaxSeq(s) == IF Len(s) = 1 THEN s[1] ELSE Max(Head(s), MaxSeq(Tail(s)))

RECURSIVE MinSeq(_)
MinSeq(s) == IF Len(s) = 1 THEN s[1] ELSE Min(Head(s), MinSeq(Tail(s)))

CountIn(s, members) == Len(SelectSeq(s, LAMBDA p : p \in members))

CountWhere(s, key, value) == Len(SelectSeq(s, LAMBDA t : Get(t, key, "None") = value))

(* Indicator values: numeric, string or bool; Absent marks a key that is   *)
(* not in the dict when a dict is built with MkDict.                       *)
Num(n) == [kind |-> "num", n |-> n, s |-> ""]
Str(s) == [kind |-> "str", n |-> 0, s |-> s]
\* True is the number 1 and False the number 0
Bool(b) == [kind |-> "bool", n |-> IF b THEN Scale ELSE 0, s |-> ""]
Absent == [kind |-> "absent", n |-> 0, s |-> ""]
MkDict(all) == Restrict(all, {k \in DOMAIN all : all[k].kind # "absent"})

(* `v < c` and `v > c` raise TypeError when v is a str.                     *)
CmpRaises(v) == v.kind = "str"
(* isinstance(v, (int, float)): bool is a subclass of int.                  *)
IsNumber(v) == v.kind \in {"num", "bool"}

---------------------------------------------------------------------------
(* Text                                                                    *)

Contains(s, t) ==
    \E i \in 1..(Len(s) - Len(t) + 1) : SubSeq(s, i, i + Len(t) - 1) = t

UpperChars == "ABCDEFGHIJKLMNOPQRSTUVWXYZ"
LowerChars == "abcdefghijklmnopqrstuvwxyz"
(* s[i:i+1]: the character at i, "" outside the string.                     *)
Char(s, i) == IF i \in 1..Len(s) THEN SubSeq(s, i, i) ELSE ""
From(s, i) == SubSeq(s, i, Len(s))

LowerChar(c) ==
    IF \E i \in 1..26 : Char(UpperChars, i) = c
    THEN Char(LowerChars, CHOOSE j \in 1..26 : Char(UpperChars, j) = c)
    ELSE c

(* s.lower(), from character i on.                                          *)
RECURSIVE LowerFrom(_, _)
LowerFrom(s, i) ==
    IF i > Len(s) THEN "" ELSE LowerChar(Char(s, i)) \o LowerFrom(s, i + 1)

Lower(s) == LowerFrom(s, 1)

---------------------------------------------------------------------------
(* Strategy evaluators: each returns a signal, or raises.                  *)

HoldSignal == [raised |-> FALSE, action |-> "hold", direction |-> "None", confidence |-> 0]
Signal(dir, conf) == [raised |-> FALSE, action |-> "open", direction |-> dir, confidence |-> conf]
RaisedSignal == [raised |-> TRUE, action |-> "hold", direction |-> "None", confidence |-> 0]

bullish_patterns == {"bullish_engulfing", "hammer", "morning_star", "tweezer_bottom"}
bearish_patterns == {"bearish_engulfing", "shooting_star", "evening_star", "tweezer_top"}

_apply_trend_following_strategy(fd, risk, history) ==
    LET trend == Get(fd, "trend", "neutral")
        macd == Get(Get(fd, "indicators", EmptyDict), "MACD", Num(0))
    IN  IF trend = "up"
        THEN IF CmpRaises(macd) THEN RaisedSignal
             ELSE IF macd.n > 0 THEN Signal("buy", Dec(7, 10)) ELSE HoldSignal
        ELSE IF trend = "down"
        THEN IF CmpRaises(macd) THEN RaisedSignal
             ELSE IF macd.n < 0 THEN Signal("sell", Dec(7, 10)) ELSE HoldSignal
        ELSE HoldSignal

_apply_breakout_strategy(fd, risk, history) ==
    LET price_levels == Get(fd, "price_levels", EmptyDict)
        resistance_breakout ==
            /\ Has(price_levels, "ask") /\ Has(price_levels, "resistance")
            /\ price_levels["ask"] * 1000 > price_levels["resistance"] * 1002
        support_breakdown ==
            /\ Has(price_levels, "bid") /\ Has(price_levels, "support")
            /\ price_levels["bid"] * 1000 < price_levels["support"] * 998
    IN  IF support_breakdown THEN Signal("sell", Dec(75, 100))
        ELSE IF resistance_breakout THEN Signal("buy", Dec(75, 100))
        ELSE HoldSignal

(* A variant of _apply_mean_reversion_strategy that reads the risk profile: *)
(* no signal unless the level is medium.                                   *)
mean_reversion_reading_risk(fd, risk, history) ==
    LET rsi == Get(Get(fd, "indicators", EmptyDict), "RSI", Num(50 * Scale))
    IN  IF CmpRaises(rsi) THEN RaisedSignal
        ELSE IF Get(risk, "level", "medium") # "medium" THEN HoldSignal
        ELSE IF rsi.n < 30 * Scale
        THEN Signal("buy", Dec(6, 10) + (30 * Scale - rsi.n) \div 100)
        ELSE IF rsi.n > 70 * Scale
        THEN Signal("sell", Dec(6, 10) + (rsi.n - 70 * Scale) \div 100)
        ELSE HoldSignal

_apply_mean_reversion_strategy(fd, risk, history) ==
    LET indicators == Get(fd, "indicators", EmptyDict)
        rsi == Get(indicators, "RSI", Absent)
        after_rsi ==
            IF ~Has(indicators, "RSI") THEN HoldSignal
            ELSE IF CmpRaises(rsi) THEN RaisedSignal
            ELSE IF rsi.n < 30 * Scale
                 THEN Signal("buy", Dec(6, 10) + (30 * Scale - rsi.n) \div 100)
            ELSE IF rsi.n > 70 * Scale
                 THEN Signal("sell", Dec(6, 10) + (rsi.n - 70 * Scale) \div 100)
            ELSE HoldSignal
        stoch == Lower(Get(indicators, "Stochastic", Absent).s)
    IN  IF after_rsi.raised THEN after_rsi
        ELSE IF Has(indicators, "Stochastic") /\ indicators["Stochastic"].kind = "str"
        THEN IF Contains(stoch, "oversold") /\ after_rsi.direction = "buy"
             THEN [after_rsi EXCEPT !.confidence = @ + Dec(1, 10)]
             ELSE IF Contains(stoch, "overbought") /\ after_rsi.direction = "sell"
             THEN [after_rsi EXCEPT !.confidence = @ + Dec(1, 10)]
             ELSE after_rsi
        ELSE after_rsi

_apply_pattern_recognition_strategy(fd, risk, history) ==
    LET patterns == Get(fd, "candlestick_patterns", << >>)
        bullish_count == CountIn(patterns, bullish_patterns)
        bearish_count == CountIn(patterns, bearish_patterns)
    IN  IF bullish_count > 0 /\ bearish_count = 0
        THEN Signal("buy", Dec(5, 10) + bullish_count * Dec(1, 10))
        ELSE IF bearish_count > 0 /\ bullish_count = 0
        THEN Signal("sell", Dec(5, 10) + bearish_count * Dec(1, 10))
        ELSE HoldSignal

_apply_multi_timeframe_strategy(fd, risk, history) ==
    LET trend == Get(fd, "trend", "neutral")
        indicators == Get(fd, "indicators", EmptyDict)
        rsi == Get(indicators, "RSI", Num(50 * Scale))
        macd == Get(indicators, "MACD", Num(0))
        ema == Get(indicators, "EMA", Bool(FALSE))
    IN  IF trend = "up"
        THEN IF CmpRaises(rsi) THEN RaisedSignal
             ELSE IF rsi.n < 70 * Scale
             THEN IF CmpRaises(macd) THEN RaisedSignal
                  ELSE IF macd.n > 0
                  THEN IF (ema.kind = "bool" /\ ema.n # 0) \/ (IsNumber(ema) /\ ema.n > 0)
                       THEN Signal("buy", Dec(8, 10))
                       ELSE HoldSignal
                  ELSE HoldSignal
             ELSE HoldSignal
        ELSE IF trend = "down"
        THEN IF CmpRaises(rsi) THEN RaisedSignal
             ELSE IF rsi.n > 30 * Scale
             THEN IF CmpRaises(macd) THEN RaisedSignal
                  ELSE IF macd.n < 0
                  THEN IF (ema.kind = "bool" /\ ema.n # 0) \/ (IsNumber(ema) /\ ema.n < 0)
                       THEN Signal("sell", Dec(8, 10))
                       ELSE HoldSignal
                  ELSE HoldSignal
             ELSE HoldSignal
        ELSE HoldSignal

(* The strategies dict of make_trade_decision, in insertion order.         *)
strategies ==
    <<"trend_following", "breakout", "mean_reversion", "pattern_recognition",
      "multi_timeframe">>

strategy_func(name, fd, risk, history) ==
    CASE name = "trend_following" -> _apply_trend_following_strategy(fd, risk, history)
      [] name = "breakout" -> _apply_breakout_strategy(fd, risk, history)
      [] name = "mean_reversion" -> _apply_mean_reversion_strategy(fd, risk, history)
      [] name = "pattern_recognition" -> _apply_pattern_recognition_strategy(fd, risk, history)
      [] name = "multi_timeframe" -> _apply_multi_timeframe_strategy(fd, risk, history)

---------------------------------------------------------------------------
(* DecisionAggregator                                                      *)

(* A variant of _validate_market_conditions without the check of          *)
(* parsed_elements_count.                                                  *)
validate_without_element_count(fd) ==
    IF ~({"price_levels", "indicators"} \subseteq DOMAIN fd) THEN FALSE
    ELSE IF ~(\E key \in {"bid", "ask"} : Has(fd["price_levels"], key)) THEN FALSE
    ELSE IF DOMAIN fd["indicators"] = {} THEN FALSE
    ELSE TRUE

_validate_market_conditions(fd) ==
    IF ~({"price_levels", "indicators"} \subseteq DOMAIN fd) THEN FALSE
    ELSE IF ~(\E key \in {"bid", "ask"} : Has(fd["price_levels"], key)) THEN FALSE
    ELSE IF DOMAIN fd["indicators"] = {} THEN FALSE
    ELSE IF Get(fd, "parsed_elements_count", 0) < 3 THEN FALSE
    ELSE TRUE

(* Appends to decision["reasoning"]; forex_data['trend'] raises KeyError    *)
(* when the key is missing (forex_data.get("trend") is then None, which     *)
(* differs from "neutral").                                                *)
_add_data_based_reasoning(d, fd) ==
    LET r1 == IF Get(fd, "candlestick_patterns", << >>) # << >>
              THEN Append(d.reasoning, "Patterns") ELSE d.reasoning
        trend_raises == ~Has(fd, "trend")
        r2 == IF Get(fd, "trend", "None") # "neutral"
              THEN Append(r1, "Market trend") ELSE r1
        indicators == Get(fd, "indicators", EmptyDict)
        keys == SelectSeq(<<"RSI", "MACD", "Stochastic">>, LAMBDA k : Has(indicators, k))
    IN  [raised |-> trend_raises, decision |-> [d EXCEPT !.reasoning = r2 \o keys]]

NoDecision ==
    [action |-> "none", direction |-> "None", confidence |-> 0, stop_loss_pips |-> 0,
     take_profit_pips |-> 0, position_size |-> 0, strategies_triggered |-> << >>,
     reasoning |-> << >>]

(* A variant of try_strategy without the except clause's isolation: an     *)
(* evaluator that raised is recorded as a buy signal.                      *)
try_strategy_counting_raised(panel, name, result) ==
    [calls |-> Append(panel.calls, name),
     strategy_signals |->
         IF result.raised
         THEN Append(panel.strategy_signals, [name |-> name, direction |-> "buy"])
         ELSE IF result.action # "hold"
         THEN Append(panel.strategy_signals, [name |-> name, direction |-> result.direction])
         ELSE panel.strategy_signals]

(* One iteration of the loop over strategies, result being what the         *)
(* evaluator returned or that it raised: the try/except leaves              *)
(* strategy_signals as it was when the evaluator raises or holds.           *)
try_strategy(panel, name, result) ==
    [calls |-> Append(panel.calls, name),
     strategy_signals |->
         IF ~result.raised /\ result.action # "hold"
         THEN Append(panel.strategy_signals, [name |-> name, direction |-> result.direction])
         ELSE panel.strategy_signals]

(* The loop over strategies, from entry i on.                               *)
RECURSIVE apply_strategies(_, _, _, _, _)
apply_strategies(panel, i, fd, risk, history) ==
    IF i > Len(strategies) THEN panel
    ELSE Strict(try_strategy(panel, strategies[i], strategy_func(strategies[i], fd, risk, history)),
                LAMBDA next : apply_strategies(next, i + 1, fd, risk, history))

(* The names in strategy_signals whose signal has the direction dir.        *)
signals_for(strategy_signals, dir) ==
    LET mine == SelectSeq(strategy_signals, LAMBDA sig : sig.direction = dir)
    IN  [i \in 1..Len(mine) |-> mine[i].name]

(* A variant of resolve in which two agreeing votes open a position        *)
(* whatever the confidence.                                                *)
resolve_without_threshold(buy_signals, sell_signals, confidence, confidence_threshold) ==
    IF buy_signals >= 2 /\ sell_signals = 0 THEN "strong_buy"
    ELSE IF sell_signals >= 2 /\ buy_signals = 0 THEN "strong_sell"
    ELSE "hold"

(* The vote resolution of make_trade_decision (first match wins): the      *)
(* tag of the branch taken.                                                *)
resolve(buy_signals, sell_signals, confidence, confidence_threshold) ==
    IF buy_signals >= 3 /\ sell_signals = 0 THEN "strong_buy"
    ELSE IF sell_signals >= 3 /\ buy_signals = 0 THEN "strong_sell"
    ELSE IF buy_signals >= 2 /\ sell_signals = 0 /\ confidence >= confidence_threshold
    THEN "buy"
    ELSE IF sell_signals >= 2 /\ buy_signals = 0 /\ confidence >= confidence_threshold
    THEN "sell"
    ELSE "hold"

(* A variant of risk_override that lets every decision through.            *)
no_risk_override(d, risk) == d

(* The risk management override of make_trade_decision.                    *)
risk_override(d, risk) ==
    IF risk["level"] = "extreme" /\ d.action = "open"
    THEN [d EXCEPT !.action = "hold", !.direction = "None",
                   !.reasoning = Append(@, "Trade aborted due to extreme risk level")]
    ELSE d

(* The decision dict make_trade_decision starts from.                       *)
default_decision(confidence, risk) ==
    [action |-> "hold", direction |-> "None", confidence |-> confidence,
     stop_loss_pips |-> risk["stop_loss_pips"],
     take_profit_pips |-> risk["take_profit_pips"],
     position_size |-> risk["position_size"],
     strategies_triggered |-> << >>, reasoning |-> << >>]

(* make_trade_decision from the vote count on, strategy_signals being      *)
(* non-empty. Result: raised, and the decision.                            *)
decide(fd, confidence, risk, strategy_signals) ==
    LET default == default_decision(confidence, risk)
        buys == signals_for(strategy_signals, "buy")
        sells == signals_for(strategy_signals, "sell")
        buy_signals == Len(buys)
        sell_signals == Len(sells)
        confidence_threshold == Get(risk, "confidence_threshold", Dec(65, 100))
        branch == resolve(buy_signals, sell_signals, confidence, confidence_threshold)
        resolved ==
            CASE branch = "strong_buy" ->
                   [default EXCEPT !.action = "open", !.direction = "buy",
                       !.strategies_triggered = buys,
                       !.reasoning = Append(@, "Strong buy consensus")]
              [] branch = "strong_sell" ->
                   [default EXCEPT !.action = "open", !.direction = "sell",
                       !.strategies_triggered = sells,
                       !.reasoning = Append(@, "Strong sell consensus")]
              [] branch = "buy" ->
                   [default EXCEPT !.action = "open", !.direction = "buy",
                       !.strategies_triggered = buys,
                       !.reasoning = Append(@, "Buy signal with good confidence")]
              [] branch = "sell" ->
                   [default EXCEPT !.action = "open", !.direction = "sell",
                       !.strategies_triggered = sells,
                       !.reasoning = Append(@, "Sell signal with good confidence")]
              [] OTHER ->
                   IF buy_signals > 0 /\ sell_signals > 0
                   THEN [default EXCEPT !.reasoning = Append(@, "Conflicting signals")]
                   ELSE IF confidence < confidence_threshold
                   THEN [default EXCEPT !.reasoning = Append(@, "Insufficient confidence")]
                   ELSE default
    IN  Strict(_add_data_based_reasoning(risk_override(resolved, risk), fd),
               LAMBDA reasoned :
                  [raised |-> reasoned.raised,
                   decision |-> IF reasoned.raised THEN NoDecision ELSE reasoned.decision])

(* Result: raised, the decision returned, and the evaluators that were     *)
(* called (in call order).                                                 *)
make_trade_decision(fd, confidence, risk, history) ==
    IF ~_validate_market_conditions(fd)
    THEN [raised |-> FALSE, calls |-> << >>,
          decision |-> [default_decision(confidence, risk) EXCEPT !.reasoning =
              Append(@, "Insufficient or invalid market data for reliable decision")]]
    ELSE Strict(apply_strategies([calls |-> << >>, strategy_signals |-> << >>], 1,
                                 fd, risk, history),
                LAMBDA panel :
                   IF panel.strategy_signals = << >>
                   THEN [raised |-> FALSE, calls |-> panel.calls,
                         decision |-> [default_decision(confidence, risk) EXCEPT !.reasoning =
                             Append(@, "No trading strategies triggered")]]
                   ELSE Strict(decide(fd, confidence, risk, panel.strategy_signals),
                               LAMBDA r : [raised |-> r.raised, calls |-> panel.calls,
                                           decision |-> r.decision]))

---------------------------------------------------------------------------
(* ConfidenceScorer                                                        *)

Clamp01(score) == Max(0, Min(Scale, score))

(* Result: raised (a TypeError from comparing a str indicator with a       *)
(* number), and the score.                                                 *)
_calculate_confidence_score(fd) ==
    LET patterns == Get(fd, "candlestick_patterns", << >>)
        indicators == Get(fd, "indicators", EmptyDict)
        price_levels == Get(fd, "price_levels", EmptyDict)
        trend == Get(fd, "trend", "None")
        rsi == Get(indicators, "RSI", Absent)
        macd == Get(indicators, "MACD", Absent)
        pattern_adj ==
            Dec(1, 10) * CountIn(patterns, bullish_patterns)
            - Dec(1, 10) * CountIn(patterns, bearish_patterns)
        trend_adj == IF trend = "up" THEN Dec(15, 100)
                     ELSE IF trend = "down" THEN 0 - Dec(15, 100) ELSE 0
        rsi_adj == IF ~Has(indicators, "RSI") THEN 0
                   ELSE IF rsi.n < 30 * Scale THEN Dec(1, 10)
                   ELSE IF rsi.n > 70 * Scale THEN 0 - Dec(1, 10) ELSE 0
        macd_adj == IF ~Has(indicators, "MACD") THEN 0
                    ELSE IF macd.n > 0 THEN Dec(1, 10)
                    ELSE IF macd.n < 0 THEN 0 - Dec(1, 10) ELSE 0
        support_adj ==
            IF /\ Has(price_levels, "bid") /\ Has(price_levels, "support")
               /\ price_levels["bid"] * 100 <= price_levels["support"] * 101
            THEN Dec(1, 10) ELSE 0
        resistance_adj ==
            IF /\ Has(price_levels, "ask") /\ Has(price_levels, "resistance")
               /\ price_levels["ask"] * 100 >= price_levels["resistance"] * 99
            THEN 0 - Dec(1, 10) ELSE 0
        raises == \/ (Has(indicators, "RSI") /\ CmpRaises(rsi))
                  \/ (Has(indicators, "MACD") /\ CmpRaises(macd))
    IN  IF raises THEN [raised |-> TRUE, score |-> 0]
        ELSE [raised |-> FALSE,
              score |-> Clamp01(Dec(5, 10) + pattern_adj + trend_adj + rsi_adj
                                + macd_adj + support_adj + resistance_adj)]

---------------------------------------------------------------------------
(* RiskManager                                                             *)

default_risk ==
    [level |-> "medium", stop_loss_pips |-> 15, take_profit_pips |-> 30,
     position_size |-> Scale, max_exposure |-> 3 * Scale,
     volatility_factor |-> Scale, confidence_threshold |-> Dec(65, 100)]

LastN(s, n) == IF Len(s) >= n THEN SubSeq(s, Len(s) - n + 1, Len(s)) ELSE s

(* The test of the streak loop: the trade carries outcome == "loss".        *)
is_loss(trade) == Get(trade, "outcome", "None") = "loss"

(* A variant of the loop without the break: every loss among the trades    *)
(* up to trade i is counted.                                               *)
RECURSIVE losses_without_break(_, _)
losses_without_break(recent_trades, i) ==
    IF i = 0 THEN 0
    ELSE (IF is_loss(recent_trades[i]) THEN 1 ELSE 0)
         + losses_without_break(recent_trades, i - 1)

(* The loop over reversed(recent_trades), from trade i down: the length of  *)
(* the run of losses that ends at trade i.                                  *)
RECURSIVE consecutive_losses(_, _)
consecutive_losses(recent_trades, i) ==
    IF i = 0 THEN 0
    ELSE IF is_loss(recent_trades[i]) THEN 1 + consecutive_losses(recent_trades, i - 1)
    ELSE 0

extreme_risk ==
    [default_risk EXCEPT !.level = "extreme", !.position_size = Dec(25, 100),
        !.stop_loss_pips = 8, !.confidence_threshold = Dec(85, 100)]
high_risk ==
    [default_risk EXCEPT !.level = "high", !.position_size = Dec(5, 10),
        !.stop_loss_pips = 10, !.confidence_threshold = Dec(75, 100)]
low_risk ==
    [default_risk EXCEPT !.level = "low", !.position_size = Dec(15, 10)]

(* A variant that tests the shorter streak first.                          *)
risk_tier_high_first(recent_trades) ==
    LET losses == consecutive_losses(recent_trades, Len(recent_trades))
        wins == CountWhere(recent_trades, "outcome", "win")
    IN  IF losses >= 3 THEN high_risk
        ELSE IF losses >= 5 THEN extreme_risk
        ELSE IF losses = 0 /\ Len(recent_trades) >= 5
                /\ wins * 10 > 7 * Len(recent_trades)
        THEN low_risk
        ELSE default_risk

(* The tier chosen from the loss streak and the recent win rate.           *)
risk_tier(recent_trades) ==
    LET losses == consecutive_losses(recent_trades, Len(recent_trades))
        wins == CountWhere(recent_trades, "outcome", "win")
    IN  IF losses >= 5 THEN extreme_risk
        ELSE IF losses >= 3 THEN high_risk
        ELSE IF losses = 0 /\ Len(recent_trades) >= 5
                /\ wins * 10 > 7 * Len(recent_trades)
        THEN low_risk
        ELSE default_risk

(* A variant of the ATR adjustment without the clamp of the factor and      *)
(* without the floors of the stop and the target.                           *)
volatility_adjust_unclamped(risk, fd) ==
    LET indicators == Get(fd, "indicators", EmptyDict)
        atr == Get(indicators, "ATR", Absent)
        volatility_multiplier == atr.n \div 10
    IN  IF Has(indicators, "ATR") /\ IsNumber(atr)
        THEN [risk EXCEPT
                !.volatility_factor = volatility_multiplier,
                !.stop_loss_pips = (@ * volatility_multiplier) \div Scale,
                !.take_profit_pips = (@ * volatility_multiplier) \div Scale]
        ELSE risk

(* The ATR adjustment; int() truncates.                                    *)
volatility_adjust(risk, fd) ==
    LET indicators == Get(fd, "indicators", EmptyDict)
        atr == Get(indicators, "ATR", Absent)
        volatility_multiplier == Min(3 * Scale, Max(Dec(5, 10), atr.n \div 10))
    IN  IF Has(indicators, "ATR") /\ IsNumber(atr)
        THEN [risk EXCEPT
                !.volatility_factor = volatility_multiplier,
                !.stop_loss_pips = Max(8, (@ * volatility_multiplier) \div Scale),
                !.take_profit_pips = Max(16, (@ * volatility_multiplier) \div Scale)]
        ELSE risk

(* A variant that sums every position whatever its direction.               *)
exposure_any_direction(positions, directions) ==
    SumSeq([i \in 1..Len(positions) |-> Get(positions[i], "position_size", Scale)])

exposure(positions, directions) ==
    SumSeq([i \in 1..Len(positions) |->
                IF Get(positions[i], "direction", "None") \in directions
                THEN Get(positions[i], "position_size", Scale) ELSE 0])

(* Result: raised (KeyError on forex_data["trend"], or TypeError on a str   *)
(* RSI), and the risk profile. hour is datetime.now().hour.                 *)
_assess_risk(fd, history, hour) ==
    LET recent_trades == LastN(history, 10)
        tiered == volatility_adjust(risk_tier(recent_trades), fd)
        open_positions == SelectSeq(recent_trades, LAMBDA t : Get(t, "status", "None") = "open")
        check_trend == open_positions # << >> /\ Get(fd, "trend", "None") # "neutral"
        buy_exposure == exposure(open_positions, {"buy"})
        sell_exposure == exposure(open_positions, {"sell"})
        against_trend ==
            /\ check_trend
            /\ \/ (fd["trend"] = "up" /\ sell_exposure > buy_exposure)
               \/ (fd["trend"] = "down" /\ buy_exposure > sell_exposure)
        indicators == Get(fd, "indicators", EmptyDict)
        rsi == Get(indicators, "RSI", Absent)
        size0 == tiered.position_size
        size1 == IF against_trend THEN (size0 * 75) \div 100 ELSE size0
        size2 == IF Has(indicators, "RSI") /\ (rsi.n < 20 * Scale \/ rsi.n > 80 * Scale)
                 THEN (size1 * 8) \div 10 ELSE size1
        size3 == IF 13 <= hour /\ hour <= 15 THEN (size2 * 8) \div 10 ELSE size2
        total_exposure == SumSeq([i \in 1..Len(open_positions) |->
                                  Get(open_positions[i], "position_size", Scale)])
        size4 == IF total_exposure + size3 > tiered.max_exposure
                 THEN Max(Dec(1, 10), tiered.max_exposure - total_exposure)
                 ELSE size3
        raises == \/ (check_trend /\ ~Has(fd, "trend"))
                  \/ (Has(indicators, "RSI") /\ CmpRaises(rsi))
    IN  IF raises THEN [raised |-> TRUE, risk |-> default_risk]
        ELSE [raised |-> FALSE, risk |-> [tiered EXCEPT !.position_size = size4]]

---------------------------------------------------------------------------
(* Trade history                                                           *)

currency_pair == "EURUSD"

(* The record log_trade builds from the trade passed in. The bulky fields   *)
(* market_data, parsed_content_list and dino_labeled_img are stored by the  *)
(* code and read by none of the operations modelled; they are left out.     *)
trade_log(trade, clock) ==
    [timestamp |-> Get(trade, "timestamp", clock), currency_pair |-> currency_pair,
     action |-> trade["action"], reasoning |-> trade["reasoning"],
     reward |-> trade["reward"]]

(* log_trade appends and never truncates.                                  *)
log_trade(history, trade, clock) == Append(history, trade_log(trade, clock))

(* trade["profit"] = profit when a profit is given (profit is not None).    *)
with_profit(trade, given, profit) ==
    IF ~given THEN trade
    ELSE [k \in DOMAIN trade \cup {"profit"} |-> IF k = "profit" THEN profit ELSE trade[k]]

history_cap == 100

(* log_performance appends the trade and keeps the last history_cap trades. *)
log_performance(history, trade) ==
    LET grown == Append(history, trade)
    IN  IF Len(grown) > history_cap
        THEN SubSeq(grown, Len(grown) - history_cap + 1, Len(grown))
        ELSE grown

(* Two callers of log_performance on the same agent. A call is the append   *)
(* (line 952), the length check (line 956), the read of the slice           *)
(* self.trade_history[-100:] into a temporary and the assignment of the     *)
(* temporary to self.trade_history (line 957); another call can run         *)
(* between any two of them.                                                *)
Writers == {1, 2}

WriterTrade(w) ==
    [action |-> "buy", reasoning |-> IF w = 1 THEN "first" ELSE "second", reward |-> 0]

last_hundred(history) ==
    IF Len(history) > history_cap
    THEN SubSeq(history, Len(history) - history_cap + 1, Len(history))
    ELSE history

---------------------------------------------------------------------------
(* PerformanceTracker                                                      *)

RECURSIVE GCD(_, _)
GCD(a, b) == IF b = 0 THEN a ELSE Strict(a % b, LAMBDA r : GCD(b, r))

(* The quotient n / d (d > 0) as a reduced fraction.                        *)
Rat(n, d) == LET g == GCD(Abs(n), d) IN [num |-> n \div g, den |-> d \div g]
Zero == [num |-> 0, den |-> 1]
Infinity == [num |-> 1, den |-> 0]
RatLess(a, b) == a.num * b.den < b.num * a.den

zero_report ==
    [win_rate |-> Zero, total_trades |-> 0, active_trades |-> 0, total_pips |-> 0,
     largest_win |-> 0, largest_loss |-> 0, avg_win |-> Zero, avg_loss |-> Zero,
     profit_factor |-> Zero, max_drawdown |-> Zero, strategy_performance |-> EmptyDict]

reward_of(t) == Get(t, "reward", 0)
rewards(ts) == [i \in 1..Len(ts) |-> reward_of(ts[i])]

(* sorted(trades, key=timestamp): ascending and stable, so a trade goes     *)
(* after the trades with a smaller timestamp and after the earlier trades   *)
(* with the same timestamp.                                                *)
timestamp_of(t) == Get(t, "timestamp", 0)

sort_by_timestamp(ts) ==
    LET before(j, i) ==
            \/ timestamp_of(ts[j]) < timestamp_of(ts[i])
            \/ (timestamp_of(ts[j]) = timestamp_of(ts[i]) /\ j < i)
        rank(i) == Cardinality({j \in 1..Len(ts) : before(j, i)}) + 1
    IN  [r \in 1..Len(ts) |-> ts[CHOOSE i \in 1..Len(ts) : rank(i) = r]]

(* One iteration of the drawdown loop: st = [cum, peak, max], max the       *)
(* largest drawdown recorded so far as a fraction of the peak.              *)
drawdown_step(st, reward) ==
    LET cum == st.cum + reward
    IN  IF cum > st.peak THEN [st EXCEPT !.cum = cum, !.peak = cum]
        ELSE IF st.peak > 0
        THEN LET dd == Rat(st.peak - cum, st.peak)
             IN  [st EXCEPT !.cum = cum, !.max = IF RatLess(@, dd) THEN dd ELSE @]
        ELSE [st EXCEPT !.cum = cum]

(* The drawdown loop over sorted_trades, from trade i on.                   *)
RECURSIVE drawdown_loop(_, _, _)
drawdown_loop(ts, i, st) ==
    IF i > Len(ts) THEN st
    ELSE Strict(drawdown_step(st, reward_of(ts[i])),
                LAMBDA next : drawdown_loop(ts, i + 1, next))

max_drawdown(trades) ==
    Strict(sort_by_timestamp(trades),
           LAMBDA sorted_trades :
              Strict(drawdown_loop(sorted_trades, 1, [cum |-> 0, peak |-> 0, max |-> Zero]),
                     LAMBDA st : Rat(st.max.num * 100, st.max.den)))

strategy_stats(trades, strategy) ==
    LET mine == SelectSeq(trades,
                    LAMBDA t : \E i \in DOMAIN Get(t, "strategies_triggered", << >>) :
                                   t["strategies_triggered"][i] = strategy)
        \* a strategy listed twice by one trade is counted twice
        times(t) == Cardinality({i \in DOMAIN t["strategies_triggered"] :
                                     t["strategies_triggered"][i] = strategy})
        tally(P(_)) == SumSeq([i \in 1..Len(mine) |-> IF P(mine[i]) THEN times(mine[i]) ELSE 0])
        wins == tally(LAMBDA t : reward_of(t) > 0)
        losses == tally(LAMBDA t : reward_of(t) < 0)
        ties == tally(LAMBDA t : reward_of(t) = 0)
    IN  [wins |-> wins, losses |-> losses, ties |-> ties,
         total_pips |-> SumSeq([i \in 1..Len(mine) |-> times(mine[i]) * reward_of(mine[i])]),
         win_rate |-> IF wins + losses + ties > 0
                      THEN Rat(wins * 100, wins + losses + ties) ELSE Zero]

(* A variant of non_hold that counts the hold records too.                 *)
every_trade(history) == history

(* The trades evaluate_performance counts.                                 *)
non_hold(history) == SelectSeq(history, LAMBDA t : t["action"] # "hold")

(* The report of evaluate_performance over the non-hold trades.             *)
(* sharpe_ratio (a square root) and last_trade_time are not modelled.       *)
report(trades) ==
    LET total_trades == Len(trades)
        wins == SelectSeq(trades, LAMBDA t : reward_of(t) > 0)
        losses == SelectSeq(trades, LAMBDA t : reward_of(t) < 0)
        win_count == Len(wins)
        loss_count == Len(losses)
        total_win_pips == IF wins # << >> THEN SumSeq(rewards(wins)) ELSE 0
        total_loss_pips == IF losses # << >> THEN Abs(SumSeq(rewards(losses))) ELSE 0
        names == UNION {{t["strategies_triggered"][i] : i \in DOMAIN t["strategies_triggered"]} :
                        t \in {trades[j] : j \in {k \in 1..Len(trades) :
                                                    Has(trades[k], "strategies_triggered")}}}
    IN  IF total_trades = 0 THEN zero_report
        ELSE [win_rate |-> Rat(win_count * 100, total_trades),
              total_trades |-> total_trades,
              active_trades |-> CountWhere(trades, "status", "open"),
              total_pips |-> SumSeq(rewards(trades)),
              largest_win |-> IF wins # << >> THEN MaxSeq(rewards(wins)) ELSE 0,
              largest_loss |-> IF losses # << >> THEN Abs(MinSeq(rewards(losses))) ELSE 0,
              avg_win |-> IF win_count # 0 THEN Rat(total_win_pips, win_count) ELSE Zero,
              avg_loss |-> IF loss_count # 0 THEN Rat(total_loss_pips, loss_count) ELSE Zero,
              profit_factor |-> IF total_loss_pips > 0 THEN Rat(total_win_pips, total_loss_pips)
                                ELSE IF total_win_pips > 0 THEN Infinity ELSE Zero,
              max_drawdown |-> max_drawdown(trades),
              strategy_performance |-> [n \in names |-> strategy_stats(trades, n)]]

evaluate_performance(history) ==
    IF history = << >> THEN zero_report ELSE Strict(non_hold(history), report)

(* A variant of trade_history_after_evaluate that sorts the history in      *)
(* place, as list.sort would.                                              *)
history_sorted_in_place(history) == sort_by_timestamp(history)

(* self.trade_history when evaluate_performance returns: the method reads   *)
(* it into new lists (the comprehensions, sorted) and assigns neither the   *)
(* attribute nor a key of a record.                                        *)
trade_history_after_evaluate(history) == history

---------------------------------------------------------------------------
(* Extractor                                                               *)

Digits == "0123456789"
IsDigit(c) == c # "" /\ \E i \in 1..10 : Char(Digits, i) = c
DigitVal(c) == (CHOOSE i \in 1..10 : Char(Digits, i) = c) - 1

(* Index of the first occurrence of t in s, 0 when there is none.           *)
IndexOf(s, t) ==
    IF Contains(s, t)
    THEN CHOOSE i \in 1..(Len(s) - Len(t) + 1) :
            /\ SubSeq(s, i, i + Len(t) - 1) = t
            /\ \A j \in 1..(i - 1) : SubSeq(s, j, j + Len(t) - 1) # t
    ELSE 0

After(s, t) == From(s, IndexOf(s, t) + Len(t))

(* s.split(t)[1], for s that contains t: the text between the first and    *)
(* the second occurrence of t.                                             *)
SplitSecond(s, t) ==
    Strict(After(s, t),
           LAMBDA rest : IF Contains(rest, t) THEN SubSeq(rest, 1, IndexOf(rest, t) - 1)
                         ELSE rest)

(* s.lstrip() for blanks.                                                   *)
LStrip(s) ==
    IF \E i \in 1..Len(s) : Char(s, i) # " "
    THEN From(s, CHOOSE i \in 1..Len(s) :
                    Char(s, i) # " " /\ \A j \in 1..(i - 1) : Char(s, j) = " ")
    ELSE ""

(* s.strip().split()[0], for s with a non-blank character.                  *)
FirstToken(s) ==
    Strict(LStrip(s),
           LAMBDA t : IF Contains(t, " ") THEN SubSeq(t, 1, IndexOf(t, " ") - 1) ELSE t)

(* s.replace(c, ""), from character i on.                                   *)
RECURSIVE RemoveCharFrom(_, _, _)
RemoveCharFrom(s, c, i) ==
    IF i > Len(s) THEN ""
    ELSE (IF Char(s, i) = c THEN "" ELSE Char(s, i)) \o RemoveCharFrom(s, c, i + 1)

RemoveChar(s, c) == RemoveCharFrom(s, c, 1)

HasDigit(s) == \E i \in 1..Len(s) : IsDigit(Char(s, i))

(* Length of the run of digits that starts at character i of s.             *)
DigitRunLen(s, i) ==
    IF i > Len(s) THEN 0
    ELSE CHOOSE n \in 0..(Len(s) - i + 1) :
            /\ \A k \in i..(i + n - 1) : IsDigit(Char(s, k))
            /\ ~IsDigit(Char(s, i + n))

(* The leftmost match of the regex "digits, an optional dot, digits" in s, *)
(* "" when s has no digit.                                                 *)
FirstNumber(s) ==
    IF ~HasDigit(s) THEN ""
    ELSE LET i == CHOOSE k \in 1..Len(s) :
                     IsDigit(Char(s, k)) /\ \A j \in 1..(k - 1) : ~IsDigit(Char(s, j))
             n == DigitRunLen(s, i)
         IN  IF Char(s, i + n) = "."
             THEN SubSeq(s, i, i + n + DigitRunLen(s, i + n + 1))
             ELSE SubSeq(s, i, i + n - 1)

(* The regex "digits, a dot, digits" matches at character i of s.           *)
DecimalAt(s, i) ==
    /\ IsDigit(Char(s, i))
    /\ Char(s, i + DigitRunLen(s, i)) = "."
    /\ IsDigit(Char(s, i + DigitRunLen(s, i) + 1))

(* The leftmost match of the regex "digits, a dot, digits" in s, "" when   *)
(* there is none.                                                          *)
FirstDecimal(s) ==
    IF ~\E i \in 1..Len(s) : DecimalAt(s, i) THEN ""
    ELSE LET i == CHOOSE k \in 1..Len(s) :
                     DecimalAt(s, k) /\ \A j \in 1..(k - 1) : ~DecimalAt(s, j)
             n == DigitRunLen(s, i)
         IN  SubSeq(s, i, i + n + DigitRunLen(s, i + n + 1))

(* The value of the first n characters of the digit string s.               *)
RECURSIVE DigitsValueUpTo(_, _)
DigitsValueUpTo(s, n) ==
    IF n = 0 THEN 0 ELSE DigitsValueUpTo(s, n - 1) * 10 + DigitVal(Char(s, n))

DigitsValue(s) == Strict(s, LAMBDA v : DigitsValueUpTo(v, Len(v)))

IsDigits(s) == \A i \in 1..Len(s) : IsDigit(Char(s, i))

(* float(s) succeeds on an unsigned decimal numeral; every other token the  *)
(* inputs of this model hold makes it raise ValueError.                     *)
IsFloat(s) ==
    IF Contains(s, ".")
    THEN LET whole == SubSeq(s, 1, IndexOf(s, ".") - 1)
             frac == After(s, ".")
         IN  IsDigits(whole) /\ IsDigits(frac) /\ Len(whole) + Len(frac) > 0
    ELSE Len(s) > 0 /\ IsDigits(s)

(* float(s) in fixed point; digits beyond the fourth decimal are dropped.   *)
ParseFloat(s) ==
    IF Contains(s, ".")
    THEN DigitsValue(SubSeq(s, 1, IndexOf(s, ".") - 1)) * Scale
         + DigitsValue(SubSeq(After(s, ".") \o "0000", 1, 4))
    ELSE DigitsValue(s) * Scale

(* A parsed element: content is Str(text) or JSON null, type the element     *)
(* kind, bbox optional.                                                     *)
Null == [kind |-> "null", n |-> 0, s |-> ""]
TextItem(text) == [content |-> Str(text), type |-> "text"]
IconItem(text) == [content |-> Str(text), type |-> "icon"]

(* The phrase -> tag dictionary of text elements, in insertion order.       *)
pattern_phrases ==
    << <<"bullish engulfing", "bullish_engulfing">>, <<"bearish engulfing", "bearish_engulfing">>,
       <<"doji", "doji">>, <<"hammer", "hammer">>, <<"shooting star", "shooting_star">>,
       <<"morning star", "morning_star">>, <<"evening star", "evening_star">>,
       <<"pinbar", "pinbar">>, <<"tweezer top", "tweezer_top">>,
       <<"tweezer bottom", "tweezer_bottom">> >>

price_mappings ==
    << <<"bid", "bid">>, <<"ask", "ask">>, <<"support", "support">>,
       <<"resistance", "resistance">>, <<"pivot", "pivot">>, <<"s1", "support_1">>,
       <<"s2", "support_2">>, <<"r1", "resistance_1">>, <<"r2", "resistance_2">> >>

Put(d, k, v) == [x \in DOMAIN d \cup {k} |-> IF x = k THEN v ELSE d[x]]

(* The RSI token of a text that contains "rsi": "" when no number is        *)
(* found; raised when split(...)[1] or split()[0] raises IndexError.        *)
rsi_str(content) ==
    LET sep == IF Contains(content, ":") THEN "rsi:" ELSE "rsi="
    IN  IF Contains(content, ":") \/ Contains(content, "=")
        THEN IF ~Contains(content, sep) THEN [raised |-> TRUE, str |-> ""]
             ELSE Strict(SplitSecond(content, sep),
                         LAMBDA tail :
                            IF LStrip(tail) = "" THEN [raised |-> TRUE, str |-> ""]
                            ELSE [raised |-> FALSE, str |-> RemoveChar(FirstToken(tail), "%")])
        ELSE [raised |-> FALSE, str |-> FirstNumber(After(content, "rsi"))]

(* A variant of extract_rsi that stores a MACD as well when the text names  *)
(* one.                                                                    *)
extract_rsi_and_macd(indicators, content) ==
    LET with_macd == IF Contains(content, "macd") THEN Put(indicators, "MACD", Num(12))
                     ELSE indicators
    IN  IF ~Contains(content, "rsi") THEN with_macd
        ELSE Strict(rsi_str(content),
                    LAMBDA r : IF ~r.raised /\ r.str # "" /\ IsFloat(r.str)
                               THEN Put(with_macd, "RSI", Num(ParseFloat(r.str)))
                               ELSE with_macd)

extract_rsi(indicators, content) ==
    IF ~Contains(content, "rsi") THEN indicators
    ELSE Strict(rsi_str(content),
                LAMBDA r : IF ~r.raised /\ r.str # "" /\ IsFloat(r.str)
                           THEN Put(indicators, "RSI", Num(ParseFloat(r.str)))
                           ELSE indicators)

(* The loop over price_mappings, from entry i on.                           *)
RECURSIVE extract_prices(_, _, _)
extract_prices(price_levels, content, i) ==
    IF i > Len(price_mappings) THEN price_levels
    ELSE Strict(IF Contains(content, price_mappings[i][1])
                THEN FirstNumber(After(content, price_mappings[i][1])) ELSE "",
                LAMBDA found :
                   Strict(IF found # ""
                          THEN Put(price_levels, price_mappings[i][2], ParseFloat(found))
                          ELSE price_levels,
                          LAMBDA updated : extract_prices(updated, content, i + 1)))

icon_patterns(content) ==
    IF Contains(content, "candlestick") \/ Contains(content, "pattern")
    THEN IF Contains(content, "bullish") THEN <<"bullish_pattern">>
         ELSE IF Contains(content, "bearish") THEN <<"bearish_pattern">>
         ELSE IF Contains(content, "doji") THEN <<"doji">> ELSE << >>
    ELSE << >>

icon_trend(trend, content) ==
    IF Contains(content, "trend")
    THEN IF Contains(content, "up") \/ Contains(content, "bullish") THEN "up"
         ELSE IF Contains(content, "down") \/ Contains(content, "bearish") THEN "down"
         ELSE trend
    ELSE trend

(* A variant of text_patterns that recognises no phrase.                   *)
no_text_patterns(content) == << >>

text_patterns(content) ==
    LET hits == SelectSeq(pattern_phrases, LAMBDA e : Contains(content, e[1]))
    IN  [i \in 1..Len(hits) |-> hits[i][2]]

text_trend(trend, content) ==
    IF Contains(content, "trend")
    THEN IF Contains(content, "uptrend") \/ Contains(content, "bullish trend") THEN "up"
         ELSE IF Contains(content, "downtrend") \/ Contains(content, "bearish trend") THEN "down"
         ELSE IF Contains(content, "sideways") \/ Contains(content, "range") THEN "sideways"
         ELSE trend
    ELSE trend

(* The price ticker rule for an element with a bounding box.                *)
ticker(price_levels, item, content) ==
    IF /\ Has(item, "bbox")
       /\ {"x", "y", "width", "height"} \subseteq DOMAIN item["bbox"]
       /\ item["bbox"]["y"] < Dec(2, 10)
       /\ (Contains(content, "price") \/ HasDigit(content))
       /\ FirstDecimal(content) # ""
    THEN Put(price_levels, "current", ParseFloat(FirstDecimal(content)))
    ELSE price_levels

(* One iteration of the loop over parsed_content_list, content being        *)
(* item['content'].lower().                                                *)
process_content(fd, item, content) ==
    LET type == Get(item, "type", "")
        typed ==
            IF type = "icon"
            THEN [fd EXCEPT !.icons_detected = Append(@, content),
                            !.candlestick_patterns = @ \o icon_patterns(content),
                            !.trend = icon_trend(@, content)]
            ELSE IF type = "text"
            THEN [fd EXCEPT !.text_elements = Append(@, content),
                            !.candlestick_patterns = @ \o text_patterns(content),
                            !.trend = text_trend(@, content),
                            !.indicators = extract_rsi(@, content),
                            !.price_levels = extract_prices(@, content, 1)]
            ELSE fd
    IN  IF content = "" THEN fd
        ELSE [typed EXCEPT !.price_levels = ticker(@, item, content)]

process_item(fd, item) ==
    Strict(Lower(Get(item, "content", Str("")).s), LAMBDA content : process_content(fd, item, content))

(* The loop over parsed_content_list, from item i on.                       *)
RECURSIVE process_items(_, _, _)
process_items(fd, items, i) ==
    IF i > Len(items) THEN fd
    ELSE Strict(process_item(fd, items[i]), LAMBDA next : process_items(next, items, i + 1))

(* A variant of market_state that looks at the trend before the RSI.        *)
market_state_trend_first(fd) ==
    LET rsi == Get(fd["indicators"], "RSI", Num(50 * Scale)).n
    IN  IF fd["trend"] = "up" THEN "bullish"
        ELSE IF fd["trend"] = "down" THEN "bearish"
        ELSE IF rsi > 70 * Scale THEN "overbought"
        ELSE IF rsi < 30 * Scale THEN "oversold"
        ELSE "neutral"

market_state(fd) ==
    LET rsi == Get(fd["indicators"], "RSI", Num(50 * Scale)).n
    IN  IF rsi > 70 * Scale THEN "overbought"
        ELSE IF rsi < 30 * Scale THEN "oversold"
        ELSE IF fd["trend"] = "up" THEN "bullish"
        ELSE IF fd["trend"] = "down" THEN "bearish"
        ELSE "neutral"

(* Result: raised (content is null: None has no lower()), and the snapshot. *)
_extract_forex_data(content_list, clock) ==
    LET initial ==
            [currency_pair |-> currency_pair, timestamp |-> clock,
             candlestick_patterns |-> << >>, indicators |-> EmptyDict,
             price_levels |-> EmptyDict, trend |-> "neutral", icons_detected |-> << >>,
             parsed_elements_count |-> Len(content_list), text_elements |-> << >>]
        raises == \E i \in 1..Len(content_list) :
                      Get(content_list[i], "content", Str("")).kind = "null"
    IN  IF raises THEN [raised |-> TRUE, forex_data |-> initial]
        ELSE Strict(process_items(initial, content_list, 1),
                    LAMBDA fd : [raised |-> FALSE,
                                 forex_data |-> Put(fd, "market_state", market_state(fd))])

error_snapshot(clock) ==
    [currency_pair |-> currency_pair, timestamp |-> clock, error |-> "error"]

(* response: [ok |-> FALSE] when _call_omniparser raises, else the parsed   *)
(* JSON, a dict that may hold parsed_content_list.                         *)
analyze_market(response, clock) ==
    IF ~response["ok"]
    THEN [forex_data |-> error_snapshot(clock), parsed_content_list |-> << >>]
    ELSE Strict(_extract_forex_data(Get(response, "parsed_content_list", << >>), clock),
                LAMBDA extracted :
                   IF extracted.raised
                   THEN [forex_data |-> error_snapshot(clock), parsed_content_list |-> << >>]
                   ELSE [forex_data |-> extracted.forex_data,
                         parsed_content_list |-> Get(response, "parsed_content_list", << >>)])

---------------------------------------------------------------------------
(* The advisory path: decide_trade asks the LLM for a decision.             *)

(* What requests.post gives: it raises (timeout, connection error), or it   *)
(* returns a response with a status code and a body. The body is not JSON   *)
(* (response.json() raises), or JSON without choices[0].message.content     *)
(* (KeyError), or JSON whose content is the text of the LLM. The text does  *)
(* not parse (json.loads raises), or parses to a value that is no dict      *)
(* (it has no get), or to a dict.                                          *)
PostRaises == [kind |-> "raises"]
HttpReply(status_code, body) == [kind |-> "response", status_code |-> status_code, body |-> body]
NotJson == [kind |-> "not_json"]
NoChoices == [kind |-> "no_choices"]
Content(text) == [kind |-> "content", text |-> text]
Unparseable == [kind |-> "unparseable"]
NotADict == [kind |-> "list"]
ParsedDict(d) == [kind |-> "dict", value |-> d]

(* A variant of validate_action that keeps the action of the LLM.          *)
keep_action(action) == action

(* An action outside buy, sell, hold becomes hold.                         *)
validate_action(action) == IF action \notin {"buy", "sell", "hold"} THEN "hold" ELSE action

(* The try block of decide_trade. Result: raised, and the decision. A key   *)
(* missing from the dict of the LLM and a falsy value ("") both fail the    *)
(* format check. prompt_ok is FALSE when _construct_prompt raises (the      *)
(* market data or the history does not serialise).                          *)
decide_trade_try(prompt_ok, reply, clock) ==
    LET raise == [raised |-> TRUE, decision |-> EmptyDict]
    IN  IF ~prompt_ok THEN raise
        ELSE IF reply.kind = "raises" THEN raise
        ELSE IF reply.status_code # 200 THEN raise
        ELSE IF reply.body.kind # "content" THEN raise
        ELSE IF reply.body.text.kind # "dict" THEN raise
        ELSE LET d == reply.body.text.value
             IN  IF Get(d, "action", "") = "" \/ Get(d, "reasoning", "") = "" THEN raise
                 ELSE [raised |-> FALSE,
                       decision |-> Put(Put([d EXCEPT !["action"] = validate_action(@)],
                                            "timestamp", clock),
                                        "currency_pair", currency_pair)]

(* decide_trade: the except clause turns every exception of the try block   *)
(* into a hold decision.                                                   *)
decide_trade(prompt_ok, reply, clock) ==
    Strict(decide_trade_try(prompt_ok, reply, clock),
           LAMBDA r :
              IF r.raised
              THEN [raised |-> FALSE,
                    decision |-> [action |-> "hold",
                                  reasoning |-> "Error getting trading decision",
                                  timestamp |-> clock, currency_pair |-> currency_pair]]
              ELSE r)

---------------------------------------------------------------------------
(* State and operations                                                    *)

NoData == EmptyDict
NoScore == [state |-> "none", score |-> 0]
(* hour records the hour of the clock the assessment was made at.          *)
NoRisk == [state |-> "none", hour |-> 0, risk |-> default_risk]
NoResult == [state |-> "none", decision |-> NoDecision, calls |-> << >>]
NoReport == [state |-> "none", report |-> zero_report]
NoWriters == [w \in Writers |-> [at |-> "idle", slice |-> << >>]]
NoAdvice == [state |-> "none", prompt_ok |-> TRUE, reply |-> PostRaises, decision |-> EmptyDict]

(* TradingAgent.__init__, before any call.                                  *)
Init ==
    /\ trade_history = << >>
    /\ now = 0
    /\ appended = 0
    /\ parsed_content_list = << >>
    /\ forex_data = NoData
    /\ confidence_score = NoScore
    /\ risk_assessment = NoRisk
    /\ decision = NoResult
    /\ performance = NoReport
    /\ advice = NoAdvice
    /\ writers = NoWriters
    /\ pc = "init"

(* analyze_market starts a cycle: the outputs derived from the previous     *)
(* snapshot are dropped.                                                   *)
AnalyzeMarket(response) ==
    /\ \E r \in {analyze_market(response, now)} :
          /\ forex_data' = r.forex_data
          /\ parsed_content_list' = r.parsed_content_list
    /\ confidence_score' = NoScore
    /\ risk_assessment' = NoRisk
    /\ decision' = NoResult
    /\ performance' = NoReport
    /\ pc' = "analyze_market"
    /\ UNCHANGED <<advice, writers, trade_history, now, appended>>

CalculateConfidence ==
    /\ forex_data # NoData
    /\ LET r == _calculate_confidence_score(forex_data)
       IN  confidence_score' = [state |-> IF r.raised THEN "raised" ELSE "ok", score |-> r.score]
    /\ pc' = "_calculate_confidence_score"
    /\ UNCHANGED <<advice, writers, trade_history, now, appended, parsed_content_list, forex_data,
                   risk_assessment, decision, performance>>

AssessRisk(hour) ==
    /\ forex_data # NoData
    /\ LET r == _assess_risk(forex_data, trade_history, hour)
       IN  risk_assessment' = [state |-> IF r.raised THEN "raised" ELSE "ok", hour |-> hour,
                               risk |-> r.risk]
    /\ pc' = "_assess_risk"
    /\ UNCHANGED <<advice, writers, trade_history, now, appended, parsed_content_list, forex_data,
                   confidence_score, decision, performance>>

MakeTradeDecision ==
    /\ forex_data # NoData
    /\ confidence_score.state = "ok"
    /\ risk_assessment.state = "ok"
    /\ LET r == make_trade_decision(forex_data, confidence_score.score,
                                    risk_assessment.risk, trade_history)
       IN  decision' = [state |-> IF r.raised THEN "raised" ELSE "ok",
                        decision |-> r.decision, calls |-> r.calls]
    /\ pc' = "make_trade_decision"
    /\ UNCHANGED <<advice, writers, trade_history, now, appended, parsed_content_list, forex_data,
                   confidence_score, risk_assessment, performance>>

(* trade holds the keys log_trade reads: action, reasoning, reward.         *)
LogTrade(trade) ==
    /\ trade_history' = log_trade(trade_history, trade, now + 1)
    /\ now' = now + 1
    /\ appended' = appended + 1
    /\ pc' = "log_trade"
    /\ UNCHANGED <<advice, writers, parsed_content_list, forex_data, confidence_score, risk_assessment,
                   decision, performance>>

(* trade holds the keys log_performance reads after the append: action,     *)
(* reasoning.                                                              *)
LogPerformance(trade, given, profit) ==
    /\ trade_history' = log_performance(trade_history, with_profit(trade, given, profit))
    /\ now' = now + 1
    /\ appended' = appended + 1
    /\ pc' = "log_performance"
    /\ UNCHANGED <<advice, writers, parsed_content_list, forex_data, confidence_score, risk_assessment,
                   decision, performance>>

(* _construct_prompt reads self.trade_history[-3:]; nothing is assigned.    *)
DecideTrade(prompt_ok, reply) ==
    /\ LET r == decide_trade(prompt_ok, reply, now)
       IN  advice' = [state |-> IF r.raised THEN "raised" ELSE "ok",
                      prompt_ok |-> prompt_ok, reply |-> reply, decision |-> r.decision]
    /\ pc' = "decide_trade"
    /\ UNCHANGED <<writers, trade_history, now, appended, parsed_content_list, forex_data,
                   confidence_score, risk_assessment, decision, performance>>

(* log_performance, one step at a time, by the caller w.                    *)
WriterAppend(w) ==
    /\ writers[w].at = "idle"
    /\ trade_history' = Append(trade_history, WriterTrade(w))
    /\ writers' = [writers EXCEPT ![w].at = "check"]
    /\ now' = now + 1
    /\ appended' = appended + 1
    /\ pc' = "log_performance"
    /\ UNCHANGED <<advice, parsed_content_list, forex_data, confidence_score,
                   risk_assessment, decision, performance>>

WriterCheck(w) ==
    /\ writers[w].at = "check"
    /\ writers' = [writers EXCEPT ![w].at = IF Len(trade_history) > history_cap
                                           THEN "slice" ELSE "done"]
    /\ pc' = "log_performance"
    /\ UNCHANGED <<advice, trade_history, now, appended, parsed_content_list, forex_data,
                   confidence_score, risk_assessment, decision, performance>>

WriterSlice(w) ==
    /\ writers[w].at = "slice"
    /\ writers' = [writers EXCEPT ![w].at = "assign", ![w].slice = last_hundred(trade_history)]
    /\ pc' = "log_performance"
    /\ UNCHANGED <<advice, trade_history, now, appended, parsed_content_list, forex_data,
                   confidence_score, risk_assessment, decision, performance>>

WriterAssign(w) ==
    /\ writers[w].at = "assign"
    /\ trade_history' = writers[w].slice
    /\ writers' = [writers EXCEPT ![w].at = "done", ![w].slice = << >>]
    /\ pc' = "log_performance"
    /\ UNCHANGED <<advice, now, appended, parsed_content_list, forex_data, confidence_score,
                   risk_assessment, decision, performance>>

EvaluatePerformance ==
    /\ performance' = [state |-> "ok", report |-> evaluate_performance(trade_history)]
    /\ trade_history' = trade_history_after_evaluate(trade_history)
    /\ pc' = "evaluate_performance"
    /\ UNCHANGED <<advice, writers, now, appended, parsed_content_list, forex_data,
                   confidence_score, risk_assessment, decision>>

---------------------------------------------------------------------------
(* The analysis cycle: analyze_market, then the three middle stages, then   *)
(* make_trade_decision, with trades logged and performance evaluated        *)
(* between the calls.                                                      *)

FailedResponse == [ok |-> FALSE]
Response(items) == [ok |-> TRUE, parsed_content_list |-> items]

TwoElementInput == <<TextItem("bullish engulfing pattern"), TextItem("RSI: 25")>>
BidElement == TextItem("Bid 1.1000 Ask 1.1002")

Responses ==
    { FailedResponse,
      [ok |-> TRUE],
      Response(<< >>),
      Response(TwoElementInput),
      Response(Append(TwoElementInput, BidElement)),
      Response(<<TextItem("Shooting Star"), TextItem("RSI=82%"), BidElement>>),
      Response(<<IconItem("uptrend arrow"), TextItem("rsi 45"),
                 TextItem("support 1.0950 resistance 1.0990"), BidElement>>),
      Response(<<TextItem("RSI: 25"), [content |-> Null, type |-> "text"]>>) }

Hours == {10, 14}

(* Trades the caller logs: a closed losing trade through log_trade, an open *)
(* position through log_performance.                                       *)
LosingTrade == [action |-> "sell", reasoning |-> "r", reward |-> 0 - 5]
OpenPosition ==
    [action |-> "buy", direction |-> "buy", reasoning |-> "r", status |-> "open",
     position_size |-> Scale, reward |-> 0]

MaxCycleHistory == 2

(* A cycle is in progress from analyze_market until make_trade_decision    *)
(* returns or a stage raises; trades are logged and performance is          *)
(* evaluated between cycles.                                               *)
InCycle ==
    /\ forex_data # NoData
    /\ decision.state = "none"
    /\ confidence_score.state # "raised"
    /\ risk_assessment.state # "raised"

Next ==
    \/ \E response \in Responses : ~InCycle /\ AnalyzeMarket(response)
    \/ confidence_score.state = "none" /\ CalculateConfidence
    \/ \E hour \in Hours : risk_assessment.state = "none" /\ AssessRisk(hour)
    \/ decision.state = "none" /\ MakeTradeDecision
    \/ ~InCycle /\ Len(trade_history) < MaxCycleHistory /\ LogTrade(LosingTrade)
    \/ ~InCycle /\ Len(trade_history) < MaxCycleHistory /\ LogPerformance(OpenPosition, FALSE, 0)
    \/ ~InCycle /\ EvaluatePerformance

Spec == Init /\ [][Next]_vars

---------------------------------------------------------------------------
(* make_trade_decision on snapshots, confidence scores and risk profiles    *)
(* passed in by the caller.                                                *)

MaxPatterns == 2

PatternLists == UNION {[1..n -> {"bullish_engulfing", "shooting_star"}] : n \in 0..MaxPatterns}
Trends == {"up", "down", "neutral"}
RsiValues == {Absent, Num(25 * Scale), Num(75 * Scale), Str("n/a")}
MacdValues == {Absent, Num(12), Num(0 - 12), Str("n/a")}
EmaValues == {Absent, Bool(TRUE)}

(* No quote; a quote away from the levels; an ask above the resistance; a   *)
(* bid below the support.                                                  *)
PriceCases ==
    { EmptyDict,
      [bid |-> 11000, ask |-> 11002],
      [bid |-> 11000, ask |-> 11002, resistance |-> 10950],
      [bid |-> 11000, ask |-> 11002, support |-> 11100] }

ElementCounts == {2, 3}

Snapshot(patterns, trend, rsi, macd, ema, prices, count) ==
    [currency_pair |-> currency_pair, timestamp |-> 0,
     candlestick_patterns |-> patterns,
     indicators |-> MkDict([RSI |-> rsi, MACD |-> macd, EMA |-> ema]),
     price_levels |-> prices, trend |-> trend, icons_detected |-> << >>,
     parsed_elements_count |-> count, text_elements |-> << >>,
     market_state |-> "neutral"]

Snapshots ==
    { Snapshot(patterns, trend, rsi, macd, ema, prices, count) :
        patterns \in PatternLists, trend \in Trends, rsi \in RsiValues,
        macd \in MacdValues, ema \in EmaValues, prices \in PriceCases,
        count \in ElementCounts }

Confidences == {Dec(6, 10), Dec(7, 10), Dec(9, 10)}
RiskProfiles == {low_risk, default_risk, high_risk, extreme_risk}

InitDecide ==
    /\ trade_history = << >>
    /\ now = 0
    /\ appended = 0
    /\ parsed_content_list = << >>
    /\ forex_data \in Snapshots \cup {error_snapshot(0)}
    /\ confidence_score \in {[state |-> "ok", score |-> c] : c \in Confidences}
    /\ risk_assessment \in {[state |-> "ok", hour |-> 0, risk |-> r] : r \in RiskProfiles}
    /\ decision = NoResult
    /\ performance = NoReport
    /\ advice = NoAdvice
    /\ writers = NoWriters
    /\ pc = "init"

NextDecide == decision.state = "none" /\ MakeTradeDecision

SpecDecide == InitDecide /\ [][NextDecide]_vars

---------------------------------------------------------------------------
(* _calculate_confidence_score on snapshots passed in by the caller.        *)

ScoreSnapshots == Snapshots \cup {error_snapshot(0)}

InitScore ==
    /\ trade_history = << >>
    /\ now = 0
    /\ appended = 0
    /\ parsed_content_list = << >>
    /\ forex_data \in ScoreSnapshots
    /\ confidence_score = NoScore
    /\ risk_assessment = NoRisk
    /\ decision = NoResult
    /\ performance = NoReport
    /\ advice = NoAdvice
    /\ writers = NoWriters
    /\ pc = "init"

NextScore == confidence_score.state = "none" /\ CalculateConfidence

SpecScore == InitScore /\ [][NextScore]_vars

---------------------------------------------------------------------------
(* _calculate_confidence_score on snapshots whose bid and ask stand near,   *)
(* far above and far below the support and the resistance.                  *)

(* bid 1.1000 against a support of 1.0950, 1.0000, 1.1100 or 1.3000; ask    *)
(* 1.1002 against a resistance of 1.1050, 1.3000, 1.0950 or 0.9000.         *)
LevelPrices ==
    { MkDict([bid |-> Num(11000), ask |-> Num(11002), support |-> support,
              resistance |-> resistance]) :
        support \in {Absent, Num(10950), Num(10000), Num(11100), Num(13000)},
        resistance \in {Absent, Num(11050), Num(13000), Num(10950), Num(9000)} }
LevelSnapshots ==
    { Snapshot(<< >>, trend, Absent, Absent, Absent,
               [k \in DOMAIN prices |-> prices[k].n], 3) :
        trend \in Trends, prices \in LevelPrices }

InitLevels ==
    /\ trade_history = << >>
    /\ now = 0
    /\ appended = 0
    /\ parsed_content_list = << >>
    /\ forex_data \in LevelSnapshots
    /\ confidence_score = NoScore
    /\ risk_assessment = NoRisk
    /\ decision = NoResult
    /\ performance = NoReport
    /\ advice = NoAdvice
    /\ writers = NoWriters
    /\ pc = "init"

SpecLevels == InitLevels /\ [][NextScore]_vars

---------------------------------------------------------------------------
(* _assess_risk on histories built by the logging operations.               *)

MaxRiskHistory == 5

(* Closed trades as log_trade records them, and trades as a caller hands    *)
(* them to log_performance: an open position, and a trade the caller has    *)
(* marked with outcome "loss".                                             *)
WinningTrade == [action |-> "buy", reasoning |-> "r", reward |-> 5]
MarkedLoss ==
    [action |-> "sell", direction |-> "sell", reasoning |-> "r", status |-> "closed",
     outcome |-> "loss", reward |-> 0 - 5]

RiskSnapshots ==
    { Snapshot(<< >>, "neutral", Num(25 * Scale), Absent, Absent,
               [bid |-> 11000, ask |-> 11002], 3),
      Snapshot(<< >>, "down", Absent, Num(12), Absent, [bid |-> 11000, ask |-> 11002], 3) }

InitRisk ==
    /\ trade_history = << >>
    /\ now = 0
    /\ appended = 0
    /\ parsed_content_list = << >>
    /\ forex_data \in RiskSnapshots
    /\ confidence_score = NoScore
    /\ risk_assessment = NoRisk
    /\ decision = NoResult
    /\ performance = NoReport
    /\ advice = NoAdvice
    /\ writers = NoWriters
    /\ pc = "init"

Logging(limit) == risk_assessment.state = "none" /\ Len(trade_history) < limit

NextRisk ==
    \/ \E trade \in {LosingTrade, WinningTrade} : Logging(MaxRiskHistory) /\ LogTrade(trade)
    \/ \E trade \in {OpenPosition, MarkedLoss} :
          Logging(MaxRiskHistory) /\ LogPerformance(trade, FALSE, 0)
    \/ \E hour \in Hours : risk_assessment.state = "none" /\ AssessRisk(hour)

SpecRisk == InitRisk /\ [][NextRisk]_vars

---------------------------------------------------------------------------
(* _assess_risk on histories of closed trades the caller has marked with    *)
(* their outcome, long enough to overflow the window of ten recent trades.  *)

MaxTierHistory == 11

MarkedWin ==
    [action |-> "buy", direction |-> "buy", reasoning |-> "r", status |-> "closed",
     outcome |-> "win", reward |-> 5]

NextTier ==
    \/ \E trade \in {MarkedLoss, MarkedWin} :
          Logging(MaxTierHistory) /\ LogPerformance(trade, FALSE, 0)
    \/ \E hour \in Hours : risk_assessment.state = "none" /\ AssessRisk(hour)

SpecTier == InitRisk /\ [][NextTier]_vars

---------------------------------------------------------------------------
(* _assess_risk with open positions in both directions, on snapshots with   *)
(* every trend and with an RSI on either side of the extreme marks.         *)

MaxSizeHistory == 5

OpenSell ==
    [action |-> "sell", direction |-> "sell", reasoning |-> "r", status |-> "open",
     position_size |-> Dec(15, 10), reward |-> 0]

SizeTrends == {"up", "down", "neutral"}
SizeRsiValues == {Absent, Num(15 * Scale), Num(50 * Scale), Num(85 * Scale)}
SizeSnapshots ==
    { Snapshot(<< >>, trend, rsi, Absent, Absent, [bid |-> 11000, ask |-> 11002], 3) :
        trend \in SizeTrends, rsi \in SizeRsiValues }

InitSize ==
    /\ trade_history = << >>
    /\ now = 0
    /\ appended = 0
    /\ parsed_content_list = << >>
    /\ forex_data \in SizeSnapshots
    /\ confidence_score = NoScore
    /\ risk_assessment = NoRisk
    /\ decision = NoResult
    /\ performance = NoReport
    /\ advice = NoAdvice
    /\ writers = NoWriters
    /\ pc = "init"

NextSize ==
    \/ \E trade \in {OpenPosition, OpenSell, MarkedLoss, MarkedWin} :
          Logging(MaxSizeHistory) /\ LogPerformance(trade, FALSE, 0)
    \/ \E hour \in Hours : risk_assessment.state = "none" /\ AssessRisk(hour)

SpecSize == InitSize /\ [][NextSize]_vars

---------------------------------------------------------------------------
(* _assess_risk on snapshots that carry an ATR, in every tier.              *)

MaxVolatilityHistory == 5

(* ATR 3.0, 11.0, 12.5, 20.0 and 40.0, an ATR that is no number, and none.  *)
AtrValues ==
    {Absent, Str("high"), Num(3 * Scale), Num(11 * Scale), Num(125 * (Scale \div 10)),
     Num(20 * Scale), Num(40 * Scale)}
VolatilitySnapshots ==
    { [Snapshot(<< >>, "neutral", Absent, Absent, Absent, [bid |-> 11000, ask |-> 11002], 3)
          EXCEPT !.indicators = MkDict([ATR |-> atr])] : atr \in AtrValues }

InitVolatility ==
    /\ trade_history = << >>
    /\ now = 0
    /\ appended = 0
    /\ parsed_content_list = << >>
    /\ forex_data \in VolatilitySnapshots
    /\ confidence_score = NoScore
    /\ risk_assessment = NoRisk
    /\ decision = NoResult
    /\ performance = NoReport
    /\ advice = NoAdvice
    /\ writers = NoWriters
    /\ pc = "init"

NextVolatility ==
    \/ \E trade \in {MarkedLoss, MarkedWin} :
          Logging(MaxVolatilityHistory) /\ LogPerformance(trade, FALSE, 0)
    \/ \E hour \in Hours : risk_assessment.state = "none" /\ AssessRisk(hour)

SpecVolatility == InitVolatility /\ [][NextVolatility]_vars

---------------------------------------------------------------------------
(* _assess_risk with every adjustment in play: tiers, ATR, open positions,  *)
(* trend, extreme RSI and hour.                                             *)

MaxBoundsHistory == 5

BoundsSnapshots ==
    { [Snapshot(<< >>, trend, Absent, Absent, Absent, [bid |-> 11000, ask |-> 11002], 3)
          EXCEPT !.indicators = MkDict([RSI |-> rsi, ATR |-> atr])] :
        trend \in {"up", "down"}, rsi \in {Num(15 * Scale), Num(50 * Scale)},
        atr \in {Absent, Num(3 * Scale), Num(40 * Scale)} }

InitBounds ==
    /\ trade_history = << >>
    /\ now = 0
    /\ appended = 0
    /\ parsed_content_list = << >>
    /\ forex_data \in BoundsSnapshots
    /\ confidence_score = NoScore
    /\ risk_assessment = NoRisk
    /\ decision = NoResult
    /\ performance = NoReport
    /\ advice = NoAdvice
    /\ writers = NoWriters
    /\ pc = "init"

NextBounds ==
    \/ \E trade \in {OpenPosition, OpenSell, MarkedLoss, MarkedWin} :
          Logging(MaxBoundsHistory) /\ LogPerformance(trade, FALSE, 0)
    \/ \E hour \in Hours : risk_assessment.state = "none" /\ AssessRisk(hour)

SpecBounds == InitBounds /\ [][NextBounds]_vars

---------------------------------------------------------------------------
(* The trade history under log_trade and log_performance in any mix.        *)

MaxAppends == 102

(* The trade a caller logs at clock tick t: log_trade stamps it with the    *)
(* clock, log_performance stores the stamped record the caller passes.      *)
ClosedTrade == [action |-> "buy", reasoning |-> "r", reward |-> 5]
StampedTrade(t) ==
    [timestamp |-> t, currency_pair |-> currency_pair, action |-> "buy",
     reasoning |-> "r", reward |-> 5]

NextHist ==
    \/ appended < MaxAppends /\ LogTrade(ClosedTrade)
    \/ appended < MaxAppends /\ LogPerformance(StampedTrade(now + 1), FALSE, 0)

SpecHist == Init /\ [][NextHist]_vars

---------------------------------------------------------------------------
(* evaluate_performance on histories built by the logging operations.       *)

MaxPerfHistory == 3

PerfTrades ==
    { [action |-> a, reasoning |-> "r", reward |-> r] :
        a \in {"buy", "hold"}, r \in {10, 0 - 4, 0, 3} }
(* A trade logged before its reward is known.                               *)
PendingTrade == [action |-> "sell", reasoning |-> "r", status |-> "open"]

Recording == performance.state = "none" /\ Len(trade_history) < MaxPerfHistory

NextPerf ==
    \/ \E trade \in PerfTrades : Recording /\ LogTrade(trade)
    \/ Recording /\ LogPerformance(PendingTrade, FALSE, 0)
    \/ performance.state = "none" /\ EvaluatePerformance

SpecPerf == Init /\ [][NextPerf]_vars

---------------------------------------------------------------------------
(* evaluate_performance called any number of times between the appends.     *)

MaxEvalHistory == 3

EvalTrades ==
    { [action |-> "buy", reasoning |-> "r", reward |-> 10],
      [action |-> "sell", reasoning |-> "r", reward |-> 0 - 4],
      [action |-> "hold", reasoning |-> "r", reward |-> 3] }

NextEval ==
    \/ \E trade \in EvalTrades : Len(trade_history) < MaxEvalHistory /\ LogTrade(trade)
    \/ Len(trade_history) < MaxEvalHistory /\ LogPerformance(PendingTrade, FALSE, 0)
    \/ EvaluatePerformance

SpecEval == Init /\ [][NextEval]_vars

---------------------------------------------------------------------------
(* The five evaluators, called by make_trade_decision, on snapshots whose   *)
(* RSI spans the values the Extractor parses (any decimal number, also      *)
(* above 100), with a Stochastic reading and with repeated patterns.        *)

SignalRsiValues == {Absent, Num(0), Num(25 * Scale), Num(82 * Scale), Num(120 * Scale)}
StochasticValues == {Absent, Str("Oversold"), Str("overbought")}
SignalPatternLists == {<< >>, <<"hammer">>, [i \in 1..6 |-> "hammer"]}

SignalSnapshots ==
    { [Snapshot(patterns, trend, Absent, Absent, Absent, [bid |-> 11000, ask |-> 11002], 3)
          EXCEPT !.indicators = MkDict([RSI |-> rsi, MACD |-> macd, Stochastic |-> stoch])] :
        patterns \in SignalPatternLists, trend \in Trends, rsi \in SignalRsiValues,
        macd \in {Absent, Num(12)}, stoch \in StochasticValues }

InitSignal ==
    /\ trade_history = << >>
    /\ now = 0
    /\ appended = 0
    /\ parsed_content_list = << >>
    /\ forex_data \in SignalSnapshots
    /\ confidence_score = [state |-> "ok", score |-> Dec(7, 10)]
    /\ risk_assessment = [state |-> "ok", hour |-> 0, risk |-> default_risk]
    /\ decision = NoResult
    /\ performance = NoReport
    /\ advice = NoAdvice
    /\ writers = NoWriters
    /\ pc = "init"

SpecSignal == InitSignal /\ [][NextDecide]_vars

---------------------------------------------------------------------------
(* make_trade_decision on snapshots whose prices stand on either side of    *)
(* the support and the resistance, or beyond both.                          *)

(* bid 1.1000 and ask 1.1002 with a resistance of 1.0950 (broken) or        *)
(* 1.1000 (not broken) and a support of 1.1100 (broken) or 1.1000 (not).    *)
BreakoutPrices ==
    { MkDict([bid |-> Num(11000), ask |-> Num(11002), resistance |-> resistance,
              support |-> support]) :
        resistance \in {Absent, Num(10950), Num(11000)},
        support \in {Absent, Num(11100), Num(11000)} }
BreakoutSnapshots ==
    { Snapshot(patterns, "neutral", rsi, Absent, Absent,
               [k \in DOMAIN prices |-> prices[k].n], 3) :
        patterns \in {<< >>, <<"hammer">>}, rsi \in {Num(25 * Scale), Num(50 * Scale)},
        prices \in BreakoutPrices }

InitBreakout ==
    /\ trade_history = << >>
    /\ now = 0
    /\ appended = 0
    /\ parsed_content_list = << >>
    /\ forex_data \in BreakoutSnapshots
    /\ confidence_score \in {[state |-> "ok", score |-> c] : c \in Confidences}
    /\ risk_assessment \in {[state |-> "ok", hour |-> 0, risk |-> r] : r \in RiskProfiles}
    /\ decision = NoResult
    /\ performance = NoReport
    /\ advice = NoAdvice
    /\ writers = NoWriters
    /\ pc = "init"

SpecBreakout == InitBreakout /\ [][NextDecide]_vars

---------------------------------------------------------------------------
(* decide_trade on every reply of the LLM collaborator, between appends.    *)

MaxAdviceHistory == 3

(* The dicts the text of the LLM parses to: "" stands for a falsy value.    *)
LlmDicts ==
    { [action |-> a, reasoning |-> r] :
         a \in {"buy", "sell", "hold", "BUY", "wait", ""}, r \in {"because", ""} }
    \cup { [action |-> "buy"], [reasoning |-> "because"], EmptyDict,
           [action |-> "sell", reasoning |-> "because", confidence |-> "high"] }

Replies ==
    { PostRaises,
      HttpReply(500, NotJson),
      HttpReply(429, Content(ParsedDict([action |-> "buy", reasoning |-> "because"]))) }
    \cup { HttpReply(200, body) : body \in {NotJson, NoChoices, Content(Unparseable), Content(NotADict)} }
    \cup { HttpReply(200, Content(ParsedDict(d))) : d \in LlmDicts }

NextAdvice ==
    \/ \E trade \in {LosingTrade, WinningTrade} :
          Len(trade_history) < MaxAdviceHistory /\ LogTrade(trade)
    \/ \E prompt_ok \in BOOLEAN, reply \in Replies : DecideTrade(prompt_ok, reply)

SpecAdvice == Init /\ [][NextAdvice]_vars

---------------------------------------------------------------------------
(* Two log_performance calls interleaved, on a history that earlier calls   *)
(* (each run to its end) have filled with up to history_cap trades.         *)

NextWriters ==
    \/ /\ writers = NoWriters
       /\ Len(trade_history) < history_cap
       /\ LogPerformance(StampedTrade(now + 1), FALSE, 0)
    \/ \E w \in Writers : WriterAppend(w)
    \/ \E w \in Writers : WriterCheck(w)
    \/ \E w \in Writers : WriterSlice(w)
    \/ \E w \in Writers : WriterAssign(w)

SpecWriters == Init /\ [][NextWriters]_vars

---------------------------------------------------------------------------
(* _extract_forex_data on every sequence of up to MaxElements elements.     *)

MaxElements == 3

Elements ==
    { TextItem("RSI: 25"), TextItem("RSI=82%"), TextItem("rsi 45"),
      IconItem("uptrend arrow"), TextItem("downtrend"),
      TextItem("bullish engulfing pattern") }

ElementLists == UNION {[1..n -> Elements] : n \in 0..MaxElements}

NextExtract == \E items \in ElementLists : forex_data = NoData /\ AnalyzeMarket(Response(items))

SpecExtract == Init /\ [][NextExtract]_vars

---------------------------------------------------------------------------
(* A cycle from analyze_market to make_trade_decision on elements whose     *)
(* text names indicators other than the RSI.                                *)

MaxPanelElements == 3

PanelElements ==
    { TextItem("RSI: 25"),
      TextItem("RSI: 25 uptrend MACD: 12 EMA rising"),
      TextItem("downtrend MACD: -12 Stochastic: oversold ATR: 12"),
      TextItem("hammer resistance 1.0900"),
      BidElement }
PanelLists == UNION {[1..n -> PanelElements] : n \in 0..MaxPanelElements}

NextPanel ==
    \/ \E items \in PanelLists : forex_data = NoData /\ AnalyzeMarket(Response(items))
    \/ confidence_score.state = "none" /\ CalculateConfidence
    \/ confidence_score.state = "ok" /\ risk_assessment.state = "none" /\ AssessRisk(10)
    \/ decision.state = "none" /\ MakeTradeDecision

SpecPanel == Init /\ [][NextPanel]_vars

---------------------------------------------------------------------------
(* Properties                                                              *)

StrategyNames == {strategies[i] : i \in 1..Len(strategies)}

(* What an evaluator returns on the inputs of the current call.             *)
Returned(name) == strategy_func(name, forex_data, risk_assessment.risk, trade_history)

(* The evaluators that cast a vote in direction dir, and those that raise.  *)
Voters(dir) ==
    {name \in StrategyNames :
        ~Returned(name).raised /\ Returned(name).action = "open"
        /\ Returned(name).direction = dir}
Raisers == {name \in StrategyNames : Returned(name).raised}
BuyVotes == Cardinality(Voters("buy"))
SellVotes == Cardinality(Voters("sell"))

Score == confidence_score.score
Threshold == risk_assessment.risk["confidence_threshold"]
Level == risk_assessment.risk["level"]

(* The snapshot fails the precondition of the aggregator.                   *)
Insufficient ==
    \/ {"bid", "ask"} \cap DOMAIN Get(forex_data, "price_levels", EmptyDict) = {}
    \/ DOMAIN Get(forex_data, "indicators", EmptyDict) = {}
    \/ Get(forex_data, "parsed_elements_count", 0) < 3

Decided == pc = "make_trade_decision"
Outcome == <<decision.decision.action, decision.decision.direction>>
Reasoning == decision.decision.reasoning
Mentions(reasoning, entry) == \E i \in DOMAIN reasoning : reasoning[i] = entry

(* The resolution table, first match wins.                                  *)
Resolution(buy, sell, confidence, threshold) ==
    IF buy >= 3 /\ sell = 0 THEN <<"open", "buy">>
    ELSE IF sell >= 3 /\ buy = 0 THEN <<"open", "sell">>
    ELSE IF buy >= 2 /\ sell = 0 /\ confidence >= threshold THEN <<"open", "buy">>
    ELSE IF sell >= 2 /\ buy = 0 /\ confidence >= threshold THEN <<"open", "sell">>
    ELSE <<"hold", "None">>

(* C1: on a snapshot that passes validation, with a risk level other than   *)
(* extreme, the (action, direction) of make_trade_decision is the entry of  *)
(* the resolution table for the buy votes, the sell votes, the confidence   *)
(* and the threshold; no position is opened when both directions have a     *)
(* vote or when fewer than two evaluators agree, and three unanimous votes  *)
(* open whatever the confidence.                                           *)
ResolutionByFirstMatch ==
    (Decided /\ ~Insufficient /\ Level # "extreme") =>
        /\ decision.state = "ok"
        /\ Outcome = Resolution(BuyVotes, SellVotes, Score, Threshold)
        /\ (BuyVotes > 0 /\ SellVotes > 0 => Outcome[1] # "open")
        /\ (BuyVotes < 2 /\ SellVotes < 2 => Outcome[1] # "open")
        /\ (BuyVotes >= 3 /\ SellVotes = 0 => Outcome = <<"open", "buy">>)
        /\ (SellVotes >= 3 /\ BuyVotes = 0 => Outcome = <<"open", "sell">>)

(* Two buy votes, no sell vote and a confidence below the threshold: hold.  *)
TwoVotesBelowThresholdHold ==
    /\ Decided /\ ~Insufficient /\ Level # "extreme"
    /\ BuyVotes = 2 /\ SellVotes = 0 /\ Score < Threshold
    /\ Outcome = <<"hold", "None">>

(* C2: with a risk profile of level extreme, make_trade_decision returns    *)
(* hold with no direction whatever the votes and the confidence, and the    *)
(* reasoning holds the extreme-risk abort entry when the votes alone would  *)
(* have opened a position.                                                 *)
ExtremeRiskHolds ==
    (Decided /\ Level = "extreme") =>
        /\ decision.state = "ok"
        /\ Outcome = <<"hold", "None">>
        /\ (~Insufficient /\ Resolution(BuyVotes, SellVotes, Score, Threshold)[1] = "open"
              => Mentions(Reasoning, "Trade aborted due to extreme risk level"))

(* Three unanimous votes under extreme risk: the trade is aborted.          *)
ExtremeRiskAborts ==
    /\ Decided /\ Level = "extreme" /\ ~Insufficient
    /\ SellVotes >= 3 /\ BuyVotes = 0
    /\ Mentions(Reasoning, "Trade aborted due to extreme risk level")

(* C5: on a snapshot with neither bid nor ask, or no indicator, or fewer    *)
(* than three elements, make_trade_decision returns hold with the           *)
(* insufficient-data entry, calls no evaluator and does not raise.          *)
InsufficientDataHolds ==
    (Decided /\ Insufficient) =>
        /\ decision.state = "ok"
        /\ Outcome = <<"hold", "None">>
        /\ Mentions(Reasoning, "Insufficient or invalid market data for reliable decision")
        /\ decision.calls = << >>

(* Two elements only, with a quote, indicators and three buy votes: hold.   *)
TooFewElementsHold ==
    /\ Decided /\ decision.state = "ok"
    /\ Get(forex_data, "parsed_elements_count", 0) < 3
    /\ Has(Get(forex_data, "price_levels", EmptyDict), "bid")
    /\ DOMAIN Get(forex_data, "indicators", EmptyDict) # {}
    /\ BuyVotes >= 3 /\ SellVotes = 0 /\ Level # "extreme"
    /\ Outcome = <<"hold", "None">>

(* C7: when evaluators raise during make_trade_decision, the call returns   *)
(* a decision, all five evaluators have been called, the evaluators that    *)
(* raised are not among the strategies triggered, and the (action,          *)
(* direction) is the one the votes of the other evaluators resolve to.      *)
RaisingEvaluatorIsolated ==
    (Decided /\ ~Insufficient /\ Raisers # {}) =>
        /\ decision.state = "ok"
        /\ decision.calls = strategies
        /\ Outcome = IF Level = "extreme" THEN <<"hold", "None">>
                     ELSE Resolution(BuyVotes, SellVotes, Score, Threshold)
        /\ \A i \in DOMAIN decision.decision.strategies_triggered :
               decision.decision.strategies_triggered[i] \notin Raisers
        /\ (Outcome[1] = "open" =>
               {decision.decision.strategies_triggered[i] :
                    i \in DOMAIN decision.decision.strategies_triggered} = Voters(Outcome[2]))

(* An evaluator raised and the votes of the others opened a position.       *)
OpenedDespiteRaiser ==
    /\ Decided /\ ~Insufficient /\ Raisers # {}
    /\ decision.state = "ok" /\ Outcome[1] = "open"

(* C8: for every snapshot of the data model, string indicator values        *)
(* included, _calculate_confidence_score returns a value in [0, 1] and      *)
(* does not raise.                                                         *)
ScoreInUnitInterval ==
    pc = "_calculate_confidence_score" =>
        /\ confidence_score.state = "ok"
        /\ 0 <= confidence_score.score /\ confidence_score.score <= Scale

(* A record of a losing trade.                                              *)
LosingRecord(t) == Has(t, "reward") /\ t["reward"] < 0

(* C3: when the five most recent records of the history are losing trades  *)
(* (reward < 0), _assess_risk returns a profile of level extreme.           *)
FiveLosingTradesAreExtreme ==
    ( /\ pc = "_assess_risk"
      /\ Len(trade_history) >= 5
      /\ \A i \in (Len(trade_history) - 4)..Len(trade_history) : LosingRecord(trade_history[i]) )
    => (risk_assessment.state = "ok" /\ Level = "extreme")

(* C4: after n appends through log_trade and log_performance the history    *)
(* holds the last min(n, 100) appended records in append order (the record  *)
(* of the k-th append carries the timestamp k).                            *)
HistoryHoldsLastHundred ==
    LET n == Min(appended, 100)
    IN  /\ Len(trade_history) = n
        /\ \A i \in 1..Len(trade_history) : trade_history[i]["timestamp"] = appended - n + i

(* C6: analyze_market turns a failure of the collaborator or of the         *)
(* extraction into an error-flagged snapshot with no elements, and the      *)
(* stages run on that snapshot raise nothing and end in a hold decision     *)
(* with a non-empty reasoning.                                             *)
FailedAnalysisEndsInHold ==
    Has(forex_data, "error") =>
        /\ parsed_content_list = << >>
        /\ confidence_score.state # "raised"
        /\ risk_assessment.state # "raised"
        /\ decision.state # "raised"
        /\ (decision.state = "ok" => Outcome[1] = "hold" /\ Reasoning # << >>)

BothBuy ==
    /\ _apply_mean_reversion_strategy(forex_data, default_risk, trade_history).action = "open"
    /\ _apply_mean_reversion_strategy(forex_data, default_risk, trade_history).direction = "buy"
    /\ _apply_pattern_recognition_strategy(forex_data, default_risk, trade_history).action = "open"
    /\ _apply_pattern_recognition_strategy(forex_data, default_risk, trade_history).direction = "buy"

(* C9, as stated: for the two-element input, with the confidence at or      *)
(* above the threshold and no sell vote, make_trade_decision returns        *)
(* open/buy.                                                               *)
TwoElementInputOpensBuy ==
    ( /\ parsed_content_list = TwoElementInput
      /\ decision.state = "ok"
      /\ Score >= Threshold /\ SellVotes = 0 )
    => (BothBuy /\ Outcome = <<"open", "buy">>)

(* C9, amended: for the two-element input the MeanReversion and the         *)
(* PatternRecognition evaluators both return buy, and make_trade_decision   *)
(* returns hold with the insufficient-data entry as its only reasoning      *)
(* (two elements, no bid or ask); with a third element that quotes a bid    *)
(* and an ask, the confidence at or above the threshold and no sell vote,   *)
(* it returns open/buy on the votes of these two evaluators.                *)
TwoElementInputHolds ==
    /\ parsed_content_list = TwoElementInput =>
          /\ BothBuy
          /\ (decision.state = "ok" =>
                /\ Outcome = <<"hold", "None">>
                /\ Reasoning = <<"Insufficient or invalid market data for reliable decision">>)
    /\ parsed_content_list = Append(TwoElementInput, BidElement) =>
          /\ BothBuy
          /\ (decision.state = "ok" /\ Score >= Threshold /\ SellVotes = 0 =>
                /\ Outcome = <<"open", "buy">>
                /\ decision.decision.strategies_triggered
                       = <<"mean_reversion", "pattern_recognition">>)

(* The two elements and a quote: a buy position is opened.                  *)
ThreeElementInputOpensBuy ==
    /\ parsed_content_list = Append(TwoElementInput, BidElement)
    /\ decision.state = "ok"
    /\ Score >= Threshold
    /\ Outcome = <<"open", "buy">>

(* The records evaluate_performance is to count, and their rewards.         *)
Counted == {i \in 1..Len(trade_history) : trade_history[i]["action"] # "hold"}
RewardAt(i) == IF "reward" \in DOMAIN trade_history[i] THEN trade_history[i]["reward"] ELSE 0
Winners == {i \in Counted : RewardAt(i) > 0}
Losers == {i \in Counted : RewardAt(i) < 0}

RECURSIVE Pips(_)
Pips(S) == IF S = {} THEN 0
           ELSE LET i == CHOOSE k \in S : TRUE IN RewardAt(i) + Pips(S \ {i})

(* C10: evaluate_performance reports, over the non-hold trades, their       *)
(* count, the sum of their rewards, the win rate 100 x winners / count,     *)
(* the largest winning reward, the absolute value of the most negative      *)
(* reward and the profit factor gross wins / gross losses (infinite with    *)
(* wins and no losses, 0 with neither); with no non-hold trade the report   *)
(* is all zero; rewards [10, -4] give 6 pips, a win rate of 50, a largest   *)
(* win of 10, a largest loss of 4 and a profit factor of 5/2.               *)
PerformanceMetrics ==
    pc = "evaluate_performance" =>
        LET r == performance.report
        IN  /\ Counted = {} => r = zero_report
            /\ Counted # {} =>
                 /\ r.total_trades = Cardinality(Counted)
                 /\ r.total_pips = Pips(Counted)
                 /\ r.win_rate.den > 0
                 /\ r.win_rate.num * Cardinality(Counted)
                        = 100 * Cardinality(Winners) * r.win_rate.den
                 /\ (Winners # {} =>
                        /\ \E i \in Winners : RewardAt(i) = r.largest_win
                        /\ \A i \in Winners : RewardAt(i) <= r.largest_win)
                 /\ (Losers # {} =>
                        /\ \E i \in Losers : RewardAt(i) = 0 - r.largest_loss
                        /\ \A i \in Losers : RewardAt(i) >= 0 - r.largest_loss)
                 /\ (Losers # {} =>
                        /\ r.profit_factor.den > 0
                        /\ r.profit_factor.num * (0 - Pips(Losers))
                               = Pips(Winners) * r.profit_factor.den)
                 /\ (Winners # {} /\ Losers = {} => r.profit_factor = Infinity)
                 /\ (Winners = {} /\ Losers = {} => r.profit_factor = Zero)
            /\ (Counted = {1, 2} /\ Len(trade_history) = 2
                  /\ RewardAt(1) = 10 /\ RewardAt(2) = 0 - 4) =>
                 /\ r.total_pips = 6
                 /\ r.win_rate = [num |-> 50, den |-> 1]
                 /\ r.largest_win = 10
                 /\ r.largest_loss = 4
                 /\ r.profit_factor = [num |-> 5, den |-> 2]

(* A report on a hold record, a win of 10 and a loss of 4.                  *)
ReportOnWinAndLoss ==
    /\ pc = "evaluate_performance"
    /\ Len(trade_history) = 3
    /\ Counted = {2, 3}
    /\ RewardAt(2) = 10 /\ RewardAt(3) = 0 - 4
    /\ performance.report.profit_factor = [num |-> 5, den |-> 2]
    /\ performance.report.total_trades = 2


DerivedState(rsi, trend) ==
    CASE rsi > 70 * Scale -> "overbought"
      [] rsi <= 70 * Scale /\ rsi < 30 * Scale -> "oversold"
      [] rsi \in (30 * Scale)..(70 * Scale) /\ trend = "up" -> "bullish"
      [] rsi \in (30 * Scale)..(70 * Scale) /\ trend = "down" -> "bearish"
      [] OTHER -> "neutral"

Extracted == pc = "analyze_market" /\ ~Has(forex_data, "error")

(* C12: the snapshot _extract_forex_data returns has the market state       *)
(* derived from its own RSI and trend: overbought when RSI > 70 whatever    *)
(* the trend, else oversold when RSI < 30, else bullish or bearish with     *)
(* the trend up or down, else neutral; and an empty element sequence gives  *)
(* empty collections, trend neutral and market state neutral.               *)
MarketStateIsDerived ==
    Extracted =>
       /\ forex_data["market_state"] =
             DerivedState(Get(forex_data["indicators"], "RSI", Num(50 * Scale)).n,
                          forex_data["trend"])
       /\ parsed_content_list = << >> =>
             /\ forex_data["candlestick_patterns"] = << >>
             /\ forex_data["indicators"] = EmptyDict
             /\ forex_data["price_levels"] = EmptyDict
             /\ forex_data["icons_detected"] = << >>
             /\ forex_data["text_elements"] = << >>
             /\ forex_data["parsed_elements_count"] = 0
             /\ forex_data["trend"] = "neutral"
             /\ forex_data["market_state"] = "neutral"

(* A snapshot extracted from elements giving an RSI above 70 and a trend    *)
(* up: its market state is overbought.                                     *)
OverboughtInUptrend ==
    /\ Extracted
    /\ Len(parsed_content_list) = 3
    /\ Get(forex_data["indicators"], "RSI", Num(50 * Scale)).n = 82 * Scale
    /\ forex_data["trend"] = "up"
    /\ forex_data["market_state"] = "overbought"


(* The evaluators make_trade_decision called on the current snapshot.       *)
Called == {decision.calls[i] : i \in 1..Len(decision.calls)}

(* C13: every signal an evaluator returns has a confidence in [0,1], and    *)
(* its action is open exactly when its direction is buy or sell.            *)
SignalsAreWellFormed ==
    pc = "make_trade_decision" =>
       \A name \in Called :
          ~Returned(name).raised =>
             /\ Returned(name).confidence >= 0
             /\ Returned(name).confidence <= Scale
             /\ Returned(name).action \in {"hold", "open"}
             /\ Returned(name).action = "open" <=> Returned(name).direction \in {"buy", "sell"}


(* C14: every decision make_trade_decision returns carries a reasoning      *)
(* entry for the detected patterns when there are any, for the trend when   *)
(* it is not neutral, and for each of RSI, MACD and Stochastic present in   *)
(* the snapshot, on every return path.                                     *)
DataReasoningOnEveryPath ==
    (Decided /\ decision.state = "ok") =>
       /\ Get(forex_data, "candlestick_patterns", << >>) # << >> => Mentions(Reasoning, "Patterns")
       /\ Get(forex_data, "trend", "neutral") # "neutral" => Mentions(Reasoning, "Market trend")
       /\ \A k \in {"RSI", "MACD", "Stochastic"} :
              Has(Get(forex_data, "indicators", EmptyDict), k) => Mentions(Reasoning, k)


(* The dict the LLM answered with, when the reply got that far.             *)
Answer == advice.reply.body.text.value

(* The collaborator failed, answered with a status other than 200, or its   *)
(* text is no dict holding an action and a reasoning.                      *)
Malformed ==
    \/ advice.reply.kind = "raises"
    \/ advice.reply.status_code # 200
    \/ advice.reply.body.kind # "content"
    \/ advice.reply.body.text.kind # "dict"
    \/ Get(Answer, "action", "") = ""
    \/ Get(Answer, "reasoning", "") = ""

AdviceIsValidated ==
    /\ advice.state = "ok"
    /\ advice.decision["action"] \in {"buy", "sell", "hold"}
    /\ (~advice.prompt_ok \/ Malformed) =>
          /\ advice.decision["action"] = "hold"
          /\ advice.decision["reasoning"] = "Error getting trading decision"
    /\ (advice.prompt_ok /\ ~Malformed) =>
          /\ advice.decision["reasoning"] = Answer["reasoning"]
          /\ advice.decision["action"] =
                IF Answer["action"] \in {"buy", "sell", "hold"} THEN Answer["action"] ELSE "hold"

(* C15: decide_trade never raises and returns a decision whose action is    *)
(* buy, sell or hold: an action outside the set is replaced by hold, and a  *)
(* collaborator failure, a status other than 200, unparseable text or a     *)
(* reply without action or reasoning gives hold with an error reasoning;    *)
(* the call leaves the trade history as it was.                            *)
AdviceNeverRaises ==
    [][pc' = "decide_trade" => (trade_history' = trade_history /\ AdviceIsValidated')]_vars

(* decide_trade has replaced the action "wait" of the LLM by hold, on an    *)
(* agent that has trades in its history.                                   *)
OutOfSetActionBecameHold ==
    /\ pc = "decide_trade"
    /\ trade_history # << >>
    /\ advice.prompt_ok /\ ~Malformed
    /\ Answer["action"] = "wait"
    /\ advice.decision["action"] = "hold"
    /\ advice.decision["reasoning"] = "because"


Stages == {"_calculate_confidence_score", "_assess_risk", "make_trade_decision"}

(* Each result held is the stage's function of the snapshot, the history    *)
(* and the hour, whatever ran before it; and what an evaluator returns      *)
(* does not depend on the risk profile it is handed.                        *)
StageResultsAgree ==
    /\ confidence_score.state = "ok" =>
          confidence_score.score = _calculate_confidence_score(forex_data).score
    /\ risk_assessment.state = "ok" =>
          \E hour \in Hours :
             risk_assessment.risk = _assess_risk(forex_data, trade_history, hour).risk
    /\ \A name \in StrategyNames : \A risk \in RiskProfiles :
          strategy_func(name, forex_data, risk, trade_history) = Returned(name)
    /\ decision.state = "ok" =>
          decision.decision =
             make_trade_decision(forex_data, confidence_score.score, risk_assessment.risk,
                                 trade_history).decision

Holds(history, trade) == \E i \in 1..Len(history) : history[i] = trade

(* C17: when two interleaved log_performance calls have both returned, the  *)
(* history holds both appended trades (the two newest, so neither is the    *)
(* oldest to evict) and has at most 100 records.                            *)
InterleavedAppendsBothKept ==
    (\A w \in Writers : writers[w].at = "done") =>
       /\ Len(trade_history) <= history_cap
       /\ \A w \in Writers : Holds(trade_history, WriterTrade(w))


(* The trade at position i of the history carries the given outcome.        *)
Marked(i, outcome) ==
    Has(trade_history[i], "outcome") /\ trade_history[i]["outcome"] = outcome

RecentCount == IF Len(trade_history) > 10 THEN 10 ELSE Len(trade_history)
RecentIndexes == (Len(trade_history) - RecentCount + 1)..Len(trade_history)

(* The longest run of losses that ends at the most recent trade and lies    *)
(* within the recent trades.                                               *)
Streak ==
    LET n == Len(trade_history)
        runs == {k \in 0..RecentCount : \A i \in (n - k + 1)..n : Marked(i, "loss")}
    IN  CHOOSE k \in runs : \A j \in runs : j <= k

RecentWins == Cardinality({i \in RecentIndexes : Marked(i, "win")})

ExpectedTier ==
    IF Streak >= 5
    THEN [level |-> "extreme", size |-> Dec(25, 100), stop |-> 8, threshold |-> Dec(85, 100)]
    ELSE IF Streak >= 3
    THEN [level |-> "high", size |-> Dec(5, 10), stop |-> 10, threshold |-> Dec(75, 100)]
    ELSE IF Streak = 0 /\ RecentCount >= 5 /\ RecentWins * 100 > 70 * RecentCount
    THEN [level |-> "low", size |-> Dec(15, 10), stop |-> 15, threshold |-> Dec(65, 100)]
    ELSE [level |-> "medium", size |-> Scale, stop |-> 15, threshold |-> Dec(65, 100)]

(* C18: the risk tier is chosen by first match: a streak of 5 or more gives *)
(* extreme (size 0.25, stop 8, threshold 0.85); otherwise a streak of 3 or  *)
(* more gives high (size 0.5, stop 10, threshold 0.75); otherwise no streak *)
(* with at least 5 recent trades and a win rate above 70% gives low (size   *)
(* 1.5, default stop and threshold); otherwise the defaults stay (medium,   *)
(* stop 15, size 1.0, threshold 0.65). Target 30 and maxExposure 3.0 stay   *)
(* in every tier. Checked on snapshots without ATR, extreme RSI or open     *)
(* positions; the size is compared outside the hours 13..15.                *)
TierByFirstMatch ==
    (pc = "_assess_risk" /\ risk_assessment.state = "ok") =>
       LET risk == risk_assessment.risk
       IN  /\ risk["level"] = ExpectedTier.level
           /\ risk["stop_loss_pips"] = ExpectedTier.stop
           /\ risk["confidence_threshold"] = ExpectedTier.threshold
           /\ risk["take_profit_pips"] = 30
           /\ risk["max_exposure"] = 3 * Scale
           /\ risk_assessment.hour \notin 13..15 =>
                 risk["position_size"] = ExpectedTier.size

(* A streak of five or more losses was assessed: the first tier applies     *)
(* although the test of the second tier holds as well.                      *)
FiveLossesAssessedExtreme ==
    /\ pc = "_assess_risk"
    /\ risk_assessment.state = "ok"
    /\ risk_assessment.hour = 10
    /\ Streak >= 5
    /\ Level = "extreme"
    /\ risk_assessment.risk["position_size"] = Dec(25, 100)

(* C19: the loss streak _assess_risk uses is the number of consecutive      *)
(* losses counted from the most recent trade backwards within the last 10   *)
(* trades: it lies in 0..10, it is 0 when the most recent trade is not a    *)
(* loss (and the level is then neither high nor extreme), and the trades    *)
(* older than the last 10 change nothing in the assessment.                 *)
StreakCountsRecentLosses ==
    (pc = "_assess_risk" /\ risk_assessment.state = "ok") =>
       LET n == Len(trade_history)
           recent_trades == LastN(trade_history, 10)
           used == consecutive_losses(recent_trades, Len(recent_trades))
           last_ten == [i \in 1..RecentCount |-> trade_history[n - RecentCount + i]]
       IN  /\ used \in 0..10
           /\ used = Streak
           /\ (n > 0 /\ ~Marked(n, "loss")) =>
                 (used = 0 /\ Level \notin {"high", "extreme"})
           /\ risk_assessment.risk =
                 _assess_risk(forex_data, last_ten, risk_assessment.hour).risk

(* Ten losses, the oldest of them outside the last 10 trades, were          *)
(* followed by one win before the assessment.                              *)
WinAfterTenLosses ==
    /\ pc = "_assess_risk"
    /\ risk_assessment.state = "ok"
    /\ Len(trade_history) = 11
    /\ \A i \in 1..10 : Marked(i, "loss")
    /\ Marked(11, "win")
    /\ Level = "medium"


(* The open positions among the recent trades, and their exposure in the    *)
(* given directions.                                                       *)
OpenAt(i) == i \in RecentIndexes /\ Has(trade_history[i], "status")
             /\ trade_history[i]["status"] = "open"
OpenExposure(directions) ==
    SumSeq([i \in 1..Len(trade_history) |->
               IF OpenAt(i) /\ trade_history[i]["direction"] \in directions
               THEN trade_history[i]["position_size"] ELSE 0])
Opposed ==
    \/ forex_data["trend"] = "up" /\ OpenExposure({"sell"}) > OpenExposure({"buy"})
    \/ forex_data["trend"] = "down" /\ OpenExposure({"buy"}) > OpenExposure({"sell"})
ExtremeRsi ==
    /\ Has(forex_data["indicators"], "RSI")
    /\ \/ forex_data["indicators"]["RSI"].n < 20 * Scale
       \/ forex_data["indicators"]["RSI"].n > 80 * Scale
VolatileHour == risk_assessment.hour \in 13..15

(* The tier size after the three reductions, before the exposure cap.       *)
ReducedSize ==
    LET against_trend == IF Opposed THEN (ExpectedTier.size * 75) \div 100 ELSE ExpectedTier.size
        extreme_rsi == IF ExtremeRsi THEN (against_trend * 8) \div 10 ELSE against_trend
    IN  IF VolatileHour THEN (extreme_rsi * 8) \div 10 ELSE extreme_rsi

(* C20: the position size _assess_risk returns is the tier size multiplied  *)
(* in turn by 0.75 when the open exposure opposes the trend, by 0.8 when    *)
(* RSI < 20 or RSI > 80 and by 0.8 when the hour is in 13..15; when the     *)
(* open exposure plus that size exceeds maxExposure (3.0) it is replaced by *)
(* max(0.1, maxExposure - open exposure). Nothing sets it back to a tier or *)
(* default value.                                                          *)
SizeIsReducedThenCapped ==
    (pc = "_assess_risk" /\ risk_assessment.state = "ok") =>
       LET open == OpenExposure({"buy", "sell"})
       IN  risk_assessment.risk["position_size"] =
              IF open + ReducedSize > 3 * Scale
              THEN Max(Dec(1, 10), 3 * Scale - open)
              ELSE ReducedSize

(* The three reductions applied together to the default size, with room     *)
(* left under the exposure cap: 1.0 * 0.75 * 0.8 * 0.8 = 0.48.              *)
AllReductionsApplied ==
    /\ pc = "_assess_risk"
    /\ risk_assessment.state = "ok"
    /\ Opposed
    /\ ExtremeRsi
    /\ VolatileHour
    /\ OpenExposure({"buy", "sell"}) + ReducedSize <= 3 * Scale
    /\ risk_assessment.risk["position_size"] = Dec(48, 100)


(* r is an integer nearest to num / den (den > 0).                          *)
Nearest(r, num, den) == 2 * Abs(r * den - num) <= den

NumericAtr ==
    /\ Has(forex_data["indicators"], "ATR")
    /\ forex_data["indicators"]["ATR"].kind = "num"

(* clamp(ATR / 10, 0.5, 3.0), in units of 1 / Scale.                        *)
ClampedFactor ==
    LET tenth == forex_data["indicators"]["ATR"].n \div 10
    IN  IF tenth < Dec(5, 10) THEN Dec(5, 10)
        ELSE IF tenth > 3 * Scale THEN 3 * Scale ELSE tenth

(* C21: with a numeric ATR the volatility factor is clamp(ATR/10, 0.5, 3.0), *)
(* the stop is max(8, round(tier stop x factor)) and the target is          *)
(* max(16, round(30 x factor)), round being the nearest integer; without an *)
(* ATR the stop, target and factor keep their tier values.                  *)
VolatilityScalesStopAndTarget ==
    (pc = "_assess_risk" /\ risk_assessment.state = "ok") =>
       LET risk == risk_assessment.risk
       IN  IF NumericAtr
           THEN /\ risk["volatility_factor"] = ClampedFactor
                /\ \E r \in 0..100 :
                      /\ Nearest(r, ExpectedTier.stop * ClampedFactor, Scale)
                      /\ risk["stop_loss_pips"] = Max(8, r)
                /\ \E r \in 0..100 :
                      /\ Nearest(r, 30 * ClampedFactor, Scale)
                      /\ risk["take_profit_pips"] = Max(16, r)
           ELSE /\ risk["volatility_factor"] = Scale
                /\ risk["stop_loss_pips"] = ExpectedTier.stop
                /\ risk["take_profit_pips"] = 30


(* C22: when validation passes, at least one strategy votes and the vote    *)
(* resolution ends in hold, the reasoning has an entry stating the cause: a *)
(* conflict entry when both directions have votes, an insufficient          *)
(* confidence entry otherwise, whatever the vote count and the confidence.  *)
HoldStatesItsCause ==
    ( /\ Decided
      /\ decision.state = "ok"
      /\ ~Insufficient
      /\ BuyVotes + SellVotes > 0
      /\ Resolution(BuyVotes, SellVotes, Score, Threshold) = <<"hold", "None">> )
    => IF BuyVotes > 0 /\ SellVotes > 0
       THEN Mentions(Reasoning, "Conflicting signals")
       ELSE Mentions(Reasoning, "Insufficient confidence")


ResistanceBroken ==
    /\ {"ask", "resistance"} \subseteq DOMAIN forex_data["price_levels"]
    /\ forex_data["price_levels"]["ask"] * 1000 > forex_data["price_levels"]["resistance"] * 1002
SupportBroken ==
    /\ {"bid", "support"} \subseteq DOMAIN forex_data["price_levels"]
    /\ forex_data["price_levels"]["bid"] * 1000 < forex_data["price_levels"]["support"] * 998

(* C23: the Breakout evaluator returns buy with confidence 0.75 when        *)
(* ask > resistance x 1.002, sell with confidence 0.75 when                *)
(* bid < support x 0.998, and no signal (hold) when both hold on the same   *)
(* snapshot.                                                               *)
BreakoutConflictIsNoSignal ==
    (Decided /\ "breakout" \in Called) =>
       Returned("breakout") =
          IF ResistanceBroken /\ SupportBroken THEN HoldSignal
          ELSE IF ResistanceBroken THEN Signal("buy", Dec(75, 100))
          ELSE IF SupportBroken THEN Signal("sell", Dec(75, 100))
          ELSE HoldSignal


(* bid lies within 1% above the support; ask lies within 1% below the       *)
(* resistance.                                                             *)
BidNearSupport ==
    /\ {"bid", "support"} \subseteq DOMAIN forex_data["price_levels"]
    /\ forex_data["price_levels"]["support"] <= forex_data["price_levels"]["bid"]
    /\ forex_data["price_levels"]["bid"] * 100 <= forex_data["price_levels"]["support"] * 101
AskNearResistance ==
    /\ {"ask", "resistance"} \subseteq DOMAIN forex_data["price_levels"]
    /\ forex_data["price_levels"]["resistance"] * 99 <= forex_data["price_levels"]["ask"] * 100
    /\ forex_data["price_levels"]["ask"] <= forex_data["price_levels"]["resistance"]

(* C24: the score gets +0.1 exactly when bid lies within 1% above support   *)
(* and -0.1 exactly when ask lies within 1% below resistance; a bid far     *)
(* below support or an ask far above resistance adjusts nothing. Checked on *)
(* snapshots without patterns or indicators, where the rest of the score is *)
(* 0.5 and the trend adjustment of 0.15.                                    *)
LevelAdjustmentsWithinOnePercent ==
    (pc = "_calculate_confidence_score" /\ confidence_score.state = "ok") =>
       Score = Dec(5, 10)
               + (IF forex_data["trend"] = "up" THEN Dec(15, 100)
                  ELSE IF forex_data["trend"] = "down" THEN 0 - Dec(15, 100) ELSE 0)
               + (IF BidNearSupport THEN Dec(1, 10) ELSE 0)
               - (IF AskNearResistance THEN Dec(1, 10) ELSE 0)


(* C25: a snapshot produced by _extract_forex_data has no indicator other   *)
(* than RSI; on it the trend following and multi timeframe evaluators       *)
(* return hold, only breakout, mean reversion and pattern recognition can   *)
(* vote, and without a parsed RSI the snapshot fails validation.            *)
ExtractedIndicatorsAreRsiOnly ==
    (forex_data # NoData /\ ~Has(forex_data, "error")) =>
       /\ DOMAIN forex_data["indicators"] \subseteq {"RSI"}
       /\ Returned("trend_following") = HoldSignal
       /\ Returned("multi_timeframe") = HoldSignal
       /\ Voters("buy") \cup Voters("sell")
             \subseteq {"breakout", "mean_reversion", "pattern_recognition"}
       /\ ~Has(forex_data["indicators"], "RSI") => ~_validate_market_conditions(forex_data)
       /\ (Decided /\ decision.state = "ok") =>
             /\ {decision.decision.strategies_triggered[i] :
                    i \in DOMAIN decision.decision.strategies_triggered}
                   \subseteq {"breakout", "mean_reversion", "pattern_recognition"}
             /\ ~Has(forex_data["indicators"], "RSI") =>
                   Reasoning = <<"Insufficient or invalid market data for reliable decision">>

(* A decision was made on an uptrend snapshot whose text names a MACD: the  *)
(* three evaluators that can vote all voted buy.                            *)
ThreeVotesOnUptrendWithMacdText ==
    /\ Decided
    /\ decision.state = "ok"
    /\ forex_data["trend"] = "up"
    /\ \E i \in DOMAIN forex_data["text_elements"] :
          Contains(forex_data["text_elements"][i], "macd")
    /\ Voters("buy") = {"breakout", "mean_reversion", "pattern_recognition"}
    /\ decision.decision.action = "open"


Triggered ==
    {decision.decision.strategies_triggered[i] :
        i \in DOMAIN decision.decision.strategies_triggered}

(* C26: every decision make_trade_decision returns is consistent: the       *)
(* action is open exactly when the direction is buy or sell, an open        *)
(* decision lists exactly the strategies that voted for its direction, and  *)
(* a hold decision (a hold of the extreme risk override included) has no    *)
(* direction and an empty list of triggered strategies.                     *)
DecisionIsConsistent ==
    (Decided /\ decision.state = "ok") =>
       /\ decision.decision.action \in {"open", "hold"}
       /\ decision.decision.action = "open" <=> decision.decision.direction \in {"buy", "sell"}
       /\ decision.decision.action = "open" =>
             Triggered = Voters(decision.decision.direction)
       /\ decision.decision.action = "hold" =>
             /\ decision.decision.direction = "None"
             /\ decision.decision.strategies_triggered = << >>


(* C27: the position size _assess_risk returns keeps the total exposure     *)
(* within the cap: the position sizes of the open trades it considered plus *)
(* the returned size are at most maxExposure (3.0), also when the open      *)
(* exposure has reached the cap.                                           *)
ExposureStaysWithinCap ==
    (pc = "_assess_risk" /\ risk_assessment.state = "ok") =>
       OpenExposure({"buy", "sell"}) + risk_assessment.risk["position_size"]
          <= risk_assessment.risk["max_exposure"]

(* C28: every profile _assess_risk returns has 0.1 <= positionSize <= 1.5,  *)
(* stopLossPips >= 8, takeProfitPips >= 16, takeProfitPips >= stopLossPips  *)
(* and 0.5 <= volatilityFactor <= 3.0, and the exposure cap never returns   *)
(* more than the size it was given.                                         *)
ProfileWithinBounds ==
    (pc = "_assess_risk" /\ risk_assessment.state = "ok") =>
       LET risk == risk_assessment.risk
       IN  /\ Dec(1, 10) <= risk["position_size"]
           /\ risk["position_size"] <= Dec(15, 10)
           /\ risk["stop_loss_pips"] >= 8
           /\ risk["take_profit_pips"] >= 16
           /\ risk["take_profit_pips"] >= risk["stop_loss_pips"]
           /\ Dec(5, 10) <= risk["volatility_factor"]
           /\ risk["volatility_factor"] <= 3 * Scale
           /\ risk["position_size"] <= ReducedSize

(* An ATR of 3.0 was assessed with the open exposure at the cap: the factor *)
(* stands at its lower clamp, the stop at its floor and the size at 0.1.    *)
FloorsAndCapReached ==
    /\ pc = "_assess_risk"
    /\ risk_assessment.state = "ok"
    /\ NumericAtr
    /\ forex_data["indicators"]["ATR"].n = 3 * Scale
    /\ OpenExposure({"buy", "sell"}) >= 3 * Scale
    /\ risk_assessment.risk["volatility_factor"] = Dec(5, 10)
    /\ risk_assessment.risk["stop_loss_pips"] = 8
    /\ risk_assessment.risk["position_size"] = Dec(1, 10)


(* The cumulative pips after the first k records of the history. The        *)
(* records without a timestamp, which sort first, carry no reward, so the   *)
(* values of the series are those of the series in timestamp order.         *)
CumulativePips(k) == Pips({i \in Counted : i <= k})

(* C29: the maxDrawdown percentage of evaluate_performance lies between 0   *)
(* and 100, is 0 when the cumulative pips never rise above 0, and is        *)
(* computed over the trades in timestamp order, whatever the order of the   *)
(* records in the history.                                                 *)
DrawdownIsAPercentage ==
    (pc = "evaluate_performance" /\ performance.state = "ok") =>
       LET drawdown == performance.report["max_drawdown"]
       IN  /\ drawdown.den > 0
           /\ 0 <= drawdown.num
           /\ drawdown.num <= 100 * drawdown.den
           /\ (\A k \in 0..Len(trade_history) : CumulativePips(k) <= 0) => drawdown = Zero
           /\ drawdown = max_drawdown(sort_by_timestamp(non_hold(trade_history)))

=============================================================================
